---- MODULE Spec2Model ----
(***************************************************************************)
(* Model of the Volt X codebook initializer (archive/tools/codebook_init.py)*)
(* and of the codebook reader of archive/tools/train_translator.py.         *)
(*                                                                          *)
(* Numbers: a float32 value x is held as the integer x * Scale (a dyadic    *)
(* fixed-point value with FracBits fractional bits); every value used here  *)
(* has at most 24 significant bits, so it is exactly a float32.  A 32-bit   *)
(* word is never held as one integer: files are sequences of bytes 0..255.  *)
(***************************************************************************)
EXTENDS Integers, Sequences, FiniteSets, TLC

(* ------------------------------------------------------------------------ *)
(* Program constants                                                        *)
(* ------------------------------------------------------------------------ *)

\* MAGIC = b"VXCB"
MAGIC == <<86, 88, 67, 66>>

FORMAT_VERSION == 1

TARGET_DIM == 256

DEFAULT_K == 65536

\* the hard ceiling of main's first check (args.k > 65536)
MAX_K == 65536

\* SLOT_DIM of train_translator.py, the dimension load_codebook expects
SLOT_DIM == 256

(* ------------------------------------------------------------------------ *)
(* Bounds of the model                                                      *)
(* ------------------------------------------------------------------------ *)

\* fractional bits of the fixed-point values
FracBits == 8

\* largest number of rows of a matrix handed to the codec
MaxRows == 2

\* number of fill patterns of the generated matrices
NumPatterns == 2

\* number of edits applied to a written file before it is read
MaxEdits == 1

Pow2(n) == 2 ^ n

Scale == Pow2(FracBits)

(* ------------------------------------------------------------------------ *)
(* Bytes and words                                                          *)
(* ------------------------------------------------------------------------ *)

Min(a, b) == IF a < b THEN a ELSE b

Max(a, b) == IF a > b THEN a ELSE b

Abs(x) == IF x < 0 THEN -x ELSE x

\* s[from+1 .. from+n], cut at the end of s: what f.read(n) returns at offset from
ReadAt(s, from, n) == SubSeq(s, from + 1, Min(Len(s), from + n))

\* struct.pack(">I", v): the big-endian order, a byte-order slip of pack_u32
pack_u32_be(v) ==
  << (v \div 16777216) % 256, (v \div 65536) % 256, (v \div 256) % 256, v % 256 >>

\* struct.pack("<I", v) for 0 <= v < 2^31
pack_u32(v) ==
  << v % 256, (v \div 256) % 256, (v \div 65536) % 256, (v \div 16777216) % 256 >>

\* struct.unpack("<I", b)[0] for a 4-byte b whose value is below 2^31
unpack_u32(b) == b[1] + 256 * b[2] + 65536 * b[3] + 16777216 * b[4]

RECURSIVE HighBit(_)
\* position of the highest set bit of a >= 1
HighBit(a) == IF a < 2 THEN 0 ELSE 1 + HighBit(a \div 2)

\* the four little-endian bytes of the float32 with sign s, biased exponent e,
\* 23-bit mantissa m
f32_fields_bytes(s, e, m) ==
  << m % 256, (m \div 256) % 256, (e % 2) * 128 + (m \div 65536), s * 128 + (e \div 2) >>

\* astype(">f4").tobytes() of one value: the big-endian order, a byte-order
\* slip of f32_bytes
f32_bytes_be(v) ==
  IF v = 0 THEN <<0, 0, 0, 0>>
  ELSE LET a == Abs(v)
           p == HighBit(a)
           e == p - FracBits + 127
           m == a * Pow2(23 - p) - Pow2(23)
           le == f32_fields_bytes(IF v < 0 THEN 1 ELSE 0, e, m)
       IN <<le[4], le[3], le[2], le[1]>>

\* astype("<f4").tobytes() of one value v (= x * Scale, |v| < 2^24)
f32_bytes(v) ==
  IF v = 0 THEN <<0, 0, 0, 0>>
  ELSE LET a == Abs(v)
           p == HighBit(a)
           e == p - FracBits + 127
           m == a * Pow2(23 - p) - Pow2(23)
       IN f32_fields_bytes(IF v < 0 THEN 1 ELSE 0, e, m)

\* f32_value that drops the sign bit
f32_value_unsigned(b) ==
  LET e == (b[4] % 128) * 2 + (b[3] \div 128)
      m == (b[3] % 128) * 65536 + b[2] * 256 + b[1]
      sh == e - 150 + FracBits
  IN IF (e = 0 /\ m = 0) \/ sh < -30 THEN 0
     ELSE IF sh >= 0 THEN (Pow2(23) + m) * Pow2(sh)
     ELSE (Pow2(23) + m) \div Pow2(-sh)

\* np.frombuffer(dtype=float32) of four bytes, as a fixed-point value
f32_value(b) ==
  LET s == b[4] \div 128
      e == (b[4] % 128) * 2 + (b[3] \div 128)
      m == (b[3] % 128) * 65536 + b[2] * 256 + b[1]
      sh == e - 150 + FracBits
      mag == IF (e = 0 /\ m = 0) \/ sh < -30 THEN 0
             ELSE IF sh >= 0 THEN (Pow2(23) + m) * Pow2(sh)
             ELSE (Pow2(23) + m) \div Pow2(-sh)
  IN IF s = 1 THEN -mag ELSE mag

\* centroids.astype("<f4").tobytes(): the values in row-major order, four
\* bytes each
tobytes(data) ==
  [i \in 1..(4 * Len(data)) |-> f32_bytes(data[((i - 1) \div 4) + 1])[((i - 1) % 4) + 1]]

\* np.frombuffer(buf, dtype=np.float32) for a buffer of 4*n bytes
frombuffer(buf) ==
  [i \in 1..(Len(buf) \div 4) |-> f32_value(SubSeq(buf, 4 * i - 3, 4 * i))]

(* ------------------------------------------------------------------------ *)
(* Matrices                                                                 *)
(* ------------------------------------------------------------------------ *)

\* a 2-D array: shape (rows, cols) and the values in row-major order
Matrix(r, c, d) == [rows |-> r, cols |-> c, data |-> d]

NoMatrix == Matrix(0, 0, <<>>)

\* values the generated matrices are filled with: 0, 1, -1, 0.5, -0.75, 1/16, 3
Palette == <<0, Scale, -Scale, Scale \div 2, -(3 * Scale) \div 4, Scale \div 16, 3 * Scale>>

\* the generated matrix of shape (r, c) with fill pattern pat
GenMatrix(r, c, pat) ==
  Matrix(r, c, [i \in 1..(r * c) |-> Palette[((i * pat + pat) % Len(Palette)) + 1]])

\* column counts tried by the codec: below, at and above TARGET_DIM
CodecCols == {4, TARGET_DIM - 1, TARGET_DIM, TARGET_DIM + 1}

CodecInputs ==
  {GenMatrix(r, c, pat) : r \in 0..MaxRows, c \in CodecCols, pat \in 1..NumPatterns}

(* ------------------------------------------------------------------------ *)
(* Files                                                                    *)
(* ------------------------------------------------------------------------ *)

File(b) == [exists |-> TRUE, bytes |-> b]

NoFile == [exists |-> FALSE, bytes |-> <<>>]

\* a file left at the path by an earlier program
OldFile == File(<<1, 2, 3>>)

(* ------------------------------------------------------------------------ *)
(* State                                                                    *)
(* ------------------------------------------------------------------------ *)

VARIABLES
  file,          \* the file at the output path: [exists, bytes]
  centroids,     \* the matrix last handed to save_codebook
  save_status,   \* "none", "ok" or "AssertionError": how the last save ended
  loaded,        \* the outcome of the last load_codebook: [status, rows, cols, data]
  edits,         \* number of edits made to the file since it was written
  last_op,       \* the operation of the last step
  km,            \* the frame of a running kmeans_cluster call
  mn,            \* the frame of a running main
  call,          \* the last call of a pipeline function: [op, arg, out]
  es             \* the frame of a kmeans_cluster call followed on its vectors

codec_vars == <<file, centroids, save_status, loaded, edits, last_op>>

vars == <<file, centroids, save_status, loaded, edits, last_op, km, mn, call, es>>

\* no main is running
MnIdle == [pc |-> "idle"]

\* no pipeline function has been called
NoCall == [op |-> "none"]

\* no kmeans_cluster call is being followed on its vectors
EsIdle == [pc |-> "idle"]

(* ------------------------------------------------------------------------ *)
(* Codebook codec                                                           *)
(* ------------------------------------------------------------------------ *)

\* the 16-byte header written by save_codebook
header_bytes(entry_count, dim) ==
  MAGIC \o pack_u32(FORMAT_VERSION) \o pack_u32(entry_count) \o pack_u32(dim)

\* save_codebook without its assertion, as under python -O: a column count
\* other than TARGET_DIM is written out
save_codebook_unchecked(m, old) ==
  [status |-> "ok", file |-> File(header_bytes(m.rows, m.cols) \o tobytes(m.data))]

\* save_codebook(centroids, path), given the file now at path: how it ends and
\* the file it leaves.  The assertion precedes open(path, "wb").
save_codebook(m, old) ==
  IF m.cols # TARGET_DIM
  THEN [status |-> "AssertionError", file |-> old]
  ELSE [status |-> "ok", file |-> File(header_bytes(m.rows, m.cols) \o tobytes(m.data))]

LoadFailure(why) == [status |-> why, rows |-> 0, cols |-> 0, data |-> <<>>]

\* load_codebook that skips the comparison of dim with SLOT_DIM
load_codebook_any_dim(f) ==
  IF ~f.exists THEN LoadFailure("FileNotFoundError")
  ELSE
  LET magic == ReadAt(f.bytes, 0, 4)
      w_version == ReadAt(f.bytes, 4, 4)
      w_count == ReadAt(f.bytes, 8, 4)
      w_dim == ReadAt(f.bytes, 12, 4)
  IN IF magic # MAGIC THEN LoadFailure("BadMagic")
     ELSE IF Len(w_version) # 4 \/ Len(w_count) # 4 \/ Len(w_dim) # 4
     THEN LoadFailure("StructError")
     ELSE
     LET entry_count == unpack_u32(w_count)
         dim == unpack_u32(w_dim)
         buf == ReadAt(f.bytes, 16, entry_count * dim * 4)
     IN IF Len(buf) % 4 # 0 THEN LoadFailure("BufferSizeError")
        ELSE IF Len(buf) \div 4 # entry_count * dim THEN LoadFailure("ReshapeError")
        ELSE [status |-> "ok", rows |-> entry_count, cols |-> dim,
              data |-> frombuffer(buf)]

\* load_codebook that pads a short payload with zeros instead of failing
load_codebook_padded(f) ==
  IF ~f.exists THEN LoadFailure("FileNotFoundError")
  ELSE
  LET magic == ReadAt(f.bytes, 0, 4)
      w_version == ReadAt(f.bytes, 4, 4)
      w_count == ReadAt(f.bytes, 8, 4)
      w_dim == ReadAt(f.bytes, 12, 4)
  IN IF magic # MAGIC THEN LoadFailure("BadMagic")
     ELSE IF Len(w_version) # 4 \/ Len(w_count) # 4 \/ Len(w_dim) # 4
     THEN LoadFailure("StructError")
     ELSE
     LET entry_count == unpack_u32(w_count)
         dim == unpack_u32(w_dim)
         buf == ReadAt(f.bytes, 16, entry_count * dim * 4)
         got == frombuffer(buf)
     IN IF dim # SLOT_DIM THEN LoadFailure("DimMismatch")
        ELSE [status |-> "ok", rows |-> entry_count, cols |-> dim,
              data |-> [i \in 1..(entry_count * dim) |->
                          IF i <= Len(got) THEN got[i] ELSE 0]]

\* load_codebook that refuses a version other than FORMAT_VERSION
load_codebook_checks_version(f) ==
  IF ~f.exists THEN LoadFailure("FileNotFoundError")
  ELSE
  LET magic == ReadAt(f.bytes, 0, 4)
      w_version == ReadAt(f.bytes, 4, 4)
      w_count == ReadAt(f.bytes, 8, 4)
      w_dim == ReadAt(f.bytes, 12, 4)
  IN IF magic # MAGIC THEN LoadFailure("BadMagic")
     ELSE IF Len(w_version) # 4 \/ Len(w_count) # 4 \/ Len(w_dim) # 4
     THEN LoadFailure("StructError")
     ELSE IF w_version # pack_u32(FORMAT_VERSION) THEN LoadFailure("VersionError")
     ELSE
     LET entry_count == unpack_u32(w_count)
         dim == unpack_u32(w_dim)
         buf == ReadAt(f.bytes, 16, entry_count * dim * 4)
     IN IF dim # SLOT_DIM THEN LoadFailure("DimMismatch")
        ELSE IF Len(buf) % 4 # 0 THEN LoadFailure("BufferSizeError")
        ELSE IF Len(buf) \div 4 # entry_count * dim THEN LoadFailure("ReshapeError")
        ELSE [status |-> "ok", rows |-> entry_count, cols |-> dim,
              data |-> frombuffer(buf)]

\* load_codebook(path) on the file f: the error it raises, or the tensor of
\* shape [entry_count, dim] it returns.  The reads are sequential: magic,
\* version, entry_count, dim, then entry_count * dim * 4 bytes of payload.
load_codebook(f) ==
  IF ~f.exists THEN LoadFailure("FileNotFoundError")
  ELSE
  LET magic == ReadAt(f.bytes, 0, 4)
      w_version == ReadAt(f.bytes, 4, 4)
      w_count == ReadAt(f.bytes, 8, 4)
      w_dim == ReadAt(f.bytes, 12, 4)
  IN IF magic # MAGIC THEN LoadFailure("BadMagic")
     ELSE IF Len(w_version) # 4 \/ Len(w_count) # 4 \/ Len(w_dim) # 4
     THEN LoadFailure("StructError")
     ELSE
     LET entry_count == unpack_u32(w_count)
         dim == unpack_u32(w_dim)
         buf == ReadAt(f.bytes, 16, entry_count * dim * 4)
     IN IF dim # SLOT_DIM THEN LoadFailure("DimMismatch")
        ELSE IF Len(buf) % 4 # 0 THEN LoadFailure("BufferSizeError")
        ELSE IF Len(buf) \div 4 # entry_count * dim THEN LoadFailure("ReshapeError")
        ELSE [status |-> "ok", rows |-> entry_count, cols |-> dim,
              data |-> frombuffer(buf)]

NotLoaded == LoadFailure("none")

(* ------------------------------------------------------------------------ *)
(* kmeans_cluster                                                           *)
(* ------------------------------------------------------------------------ *)

\* default of kmeans_cluster's max_iter, the epoch cap main runs with
DEFAULT_MAX_ITER == 300

\* the convergence check runs when (epoch + 1) % CHECK_EVERY = 0
CHECK_EVERY == 10

\* the early exit needs epoch > MIN_EPOCH
MIN_EPOCH == 50

\* prev_inertia = float("inf")
Inf == -1

\* init_size = max(k, batch_size)
init_size(k, batch_size) == Max(k, batch_size)

\* batches_per_epoch = max(1, n // batch_size) of line 128, for n >= 0 and
\* batch_size # 0: a negative batch_size gives a quotient <= 0, hence 1.  A
\* batch_size of 0 makes the division raise ZeroDivisionError
batches_per_epoch(n, batch_size) ==
  IF batch_size < 0 THEN 1 ELSE Max(1, n \div batch_size)

\* rng.choice(n, size=size, replace=False) raises ValueError when size > n
choice_fails(n, size) == size > n

\* MiniBatchKMeans.partial_fit on a batch of `samples` rows: the error it
\* raises, or "ok".  The estimator's parameters are validated on the first
\* call; the first call seeds the k centroids from the batch and needs k rows.
partial_fit_status(first, samples, k, batch_size) ==
  IF first /\ (k < 1 \/ batch_size < 1) THEN "InvalidParameterError"
  ELSE IF samples < 1 THEN "ValueError"
  ELSE IF first /\ samples < k THEN "ValueError"
  ELSE "ok"

\* the test of line 162 with >= in place of >: an early exit at epoch 50
converged_at_floor(prev_inertia, inertia, epoch) ==
  /\ prev_inertia # Inf
  /\ prev_inertia - inertia > 0
  /\ (prev_inertia - inertia) * 10000 < prev_inertia
  /\ epoch >= MIN_EPOCH

\* 0 < delta < 0.01 and epoch > 50, where delta is
\* (prev_inertia - inertia) / prev_inertia * 100, or 0 when prev_inertia is
\* inf; for inertia values >= 0 and prev_inertia # 0
converged(prev_inertia, inertia, epoch) ==
  /\ prev_inertia # Inf
  /\ prev_inertia - inertia > 0
  /\ (prev_inertia - inertia) * 10000 < prev_inertia
  /\ epoch > MIN_EPOCH

\* rng.permutation(n): the permutations of the indices 1..n
Perms(n) == {p \in [1..n -> 1..n] : \A i, j \in 1..n : p[i] = p[j] => i = j}

\* rng.choice(n, size=size, replace=False), for size <= n: `size` distinct
\* indices in some order
Samples(n, size) == {SubSeq(p, 1, size) : p \in Perms(n)}

\* the frame of kmeans_cluster(data, k, batch_size, max_iter) on data of
\* shape (n, dim): indices is the initialization sample, perm the permutation
\* of the epoch, fed the indices handed to partial_fit in the epoch so far,
\* inertia the value last read from kmeans.inertia_
KmFrame(n, dim, k, batch_size, max_iter) ==
  [pc |-> "init", n |-> n, dim |-> dim, k |-> k, batch_size |-> batch_size,
   max_iter |-> max_iter, epoch |-> 0, b |-> 0, fits |-> 0,
   prev_inertia |-> Inf, status |-> "running", rows |-> 0, cols |-> 0,
   indices |-> <<>>, perm |-> <<>>, fed |-> <<>>, inertia |-> Inf]

KmIdle ==
  [pc |-> "idle", n |-> 0, dim |-> 0, k |-> 0, batch_size |-> 0,
   max_iter |-> 0, epoch |-> 0, b |-> 0, fits |-> 0,
   prev_inertia |-> Inf, status |-> "none", rows |-> 0, cols |-> 0,
   indices |-> <<>>, perm |-> <<>>, fed |-> <<>>, inertia |-> Inf]

KmFail(why) == [km EXCEPT !.pc = "failed", !.status = why]

\* largest number of vectors handed to kmeans_cluster
MaxN == 3

\* largest epoch cap tried
MaxEpochs == 60

\* epoch caps tried; max_iter = 0, which scikit-learn's parameter validation
\* refuses from version 1.2 on and accepts before, is left out
KmEpochCaps == {1, 20, MaxEpochs}

\* inertia values MiniBatchKMeans may report at a convergence check
Inertias == {0, 9990, 10000, 19999, 20000}

\* kmeans_cluster is called: lines 104-129.  The division of line 128 raises
\* ZeroDivisionError when batch_size is 0
KmCall(n, dim, k, batch_size, max_iter) ==
  /\ km.pc = "idle"
  /\ km' = IF batch_size = 0
           THEN [KmFrame(n, dim, k, batch_size, max_iter) EXCEPT
                   !.pc = "failed", !.status = "ZeroDivisionError"]
           ELSE KmFrame(n, dim, k, batch_size, max_iter)
  /\ UNCHANGED codec_vars
  /\ UNCHANGED <<mn, call, es>>

\* lines 131-136: the initialization sample and the first partial_fit
KmInitialize ==
  /\ km.pc = "init"
  /\ LET size == init_size(km.k, km.batch_size)
         st == partial_fit_status(TRUE, size, km.k, km.batch_size)
     IN \/ /\ choice_fails(km.n, size)
           /\ km' = KmFail("ValueError")
        \/ /\ ~choice_fails(km.n, size)
           /\ \E indices \in Samples(km.n, size) :
                km' = IF st # "ok"
                      THEN [KmFail(st) EXCEPT !.indices = indices]
                      ELSE [km EXCEPT !.pc = "epoch", !.fits = 1,
                                      !.indices = indices]
  /\ UNCHANGED codec_vars
  /\ UNCHANGED <<mn, call, es>>

\* line 138-139: the next epoch starts with a fresh permutation, or the loop
\* is exhausted and lines 167-169 return the centroids.  (`indices` is not
\* read after line 135 and leaves the frame here.)
KmEpoch ==
  /\ km.pc = "epoch"
  /\ \/ /\ km.epoch < km.max_iter
        /\ \E perm \in Perms(km.n) :
             km' = [km EXCEPT !.pc = "batch", !.b = 0,
                              !.indices = <<>>, !.perm = perm, !.fed = <<>>]
     \/ /\ km.epoch >= km.max_iter
        /\ km' = [km EXCEPT !.pc = "done", !.status = "ok",
                            !.rows = km.k, !.cols = km.dim]
  /\ UNCHANGED codec_vars
  /\ UNCHANGED <<mn, call, es>>

\* lines 140-143: one batch of the epoch is fed to partial_fit
KmBatch ==
  /\ km.pc = "batch"
  /\ LET start == km.b * km.batch_size
         end == Min(start + km.batch_size, km.n)
         st == partial_fit_status(FALSE, end - start, km.k, km.batch_size)
         last == km.b + 1 = batches_per_epoch(km.n, km.batch_size)
         batch == SubSeq(km.perm, start + 1, end)
     IN \/ /\ st # "ok"
           /\ km' = KmFail(st)
        \/ /\ st = "ok"
           /\ km' = [km EXCEPT !.b = km.b + 1, !.fits = km.fits + 1,
                               !.fed = km.fed \o batch,
                               !.pc = IF last THEN "check" ELSE "batch"]
  /\ UNCHANGED codec_vars
  /\ UNCHANGED <<mn, call, es>>

\* line 159 with (epoch + 1) % 10 # 0: no convergence check after this epoch
KmEpochEnd ==
  /\ km.pc = "check"
  /\ (km.epoch + 1) % CHECK_EVERY # 0
  /\ km' = [km EXCEPT !.pc = "epoch", !.epoch = km.epoch + 1]
  /\ UNCHANGED codec_vars
  /\ UNCHANGED <<mn, call, es>>

\* lines 158-165: the convergence check after the epoch's batches; inertia is
\* the value kmeans.inertia_ holds then.  A prev_inertia of 0 makes the
\* division of line 161 raise ZeroDivisionError.
KmCheck(inertia) ==
  /\ km.pc = "check"
  /\ (km.epoch + 1) % CHECK_EVERY = 0
  /\ \/ /\ km.prev_inertia = 0
        /\ km' = [KmFail("ZeroDivisionError") EXCEPT !.inertia = inertia]
     \/ /\ km.prev_inertia # 0
        /\ converged(km.prev_inertia, inertia, km.epoch)
        /\ km' = [km EXCEPT !.pc = "done", !.status = "ok",
                            !.rows = km.k, !.cols = km.dim,
                            !.inertia = inertia]
     \/ /\ km.prev_inertia # 0
        /\ ~converged(km.prev_inertia, inertia, km.epoch)
        /\ km' = [km EXCEPT !.pc = "epoch", !.epoch = km.epoch + 1,
                            !.prev_inertia = inertia, !.inertia = inertia]
  /\ UNCHANGED codec_vars
  /\ UNCHANGED <<mn, call, es>>

KmInit ==
  /\ file = NoFile
  /\ centroids = NoMatrix
  /\ save_status = "none"
  /\ loaded = NotLoaded
  /\ edits = 0
  /\ last_op = "init"
  /\ km = KmIdle
  /\ mn = MnIdle
  /\ call = NoCall
  /\ es = EsIdle

KmNext ==
  \/ \E n \in 1..MaxN, k \in 0..MaxN, batch_size \in 0..(MaxN + 1),
        max_iter \in KmEpochCaps :
       KmCall(n, 2, k, batch_size, max_iter)
  \/ KmInitialize
  \/ KmEpoch
  \/ KmBatch
  \/ KmEpochEnd
  \/ \E inertia \in Inertias : KmCheck(inertia)

SpecKMeans == KmInit /\ [][KmNext]_vars

\* C1: for every input with n >= k, 1 <= k <= 65536, batch size b >= 1 and
\* epoch cap E >= 0, b > n included, kmeans_cluster completes without error
\* and returns a matrix of exactly k rows, each of the input's dimension.
C1_AlwaysReturns ==
  (/\ km.pc \in {"done", "failed"}
   /\ km.n >= km.k /\ 1 <= km.k /\ km.k <= 65536
   /\ km.batch_size >= 1 /\ km.max_iter >= 0)
    => (km.status = "ok" /\ km.rows = km.k /\ km.cols = km.dim)

\* how a call kmeans_cluster(data, k, batch_size, max_iter) on data of shape
\* (n, dim) can end: the error raised, or "ok" with the shape of the matrix
\* returned.  A batch_size of 0 ends the call at the division of line 128.
\* The ZeroDivisionError of line 161 needs a second convergence check, so
\* max_iter >= 2 * CHECK_EVERY.
kmeans_cluster_outcomes(n, dim, k, batch_size, max_iter) ==
  LET size == init_size(k, batch_size)
      st == partial_fit_status(TRUE, size, k, batch_size)
      failure(why) == [status |-> why, rows |-> 0, cols |-> 0]
  IN IF batch_size = 0 THEN {failure("ZeroDivisionError")}
     ELSE IF choice_fails(n, size) THEN {failure("ValueError")}
     ELSE IF st # "ok" THEN {failure(st)}
     ELSE {[status |-> "ok", rows |-> k, cols |-> dim]}
            \cup (IF max_iter >= 2 * CHECK_EVERY
                  THEN {failure("ZeroDivisionError")} ELSE {})

\* every end of the step-by-step run is one kmeans_cluster_outcomes allows
KmOutcomesAgree ==
  km.pc \in {"done", "failed"} =>
    [status |-> km.status, rows |-> km.rows, cols |-> km.cols]
      \in kmeans_cluster_outcomes(km.n, km.dim, km.k, km.batch_size, km.max_iter)

(* ------------------------------------------------------------------------ *)
(* The stages of main                                                       *)
(* ------------------------------------------------------------------------ *)

\* a field of a split line: a string float() parses to val, or one it rejects
Num(v) == [num |-> TRUE, val |-> v]

Word == [num |-> FALSE, val |-> 0]

\* --max-vocab: absent (None) or a number of lines
NoCap == [given |-> FALSE, n |-> 0]

Cap(c) == [given |-> TRUE, n |-> c]

RECURSIVE parsed_rows(_, _)
\* lines 55-65 over the first `upto` lines: the vectors appended, in file
\* order.  A line of fewer than 3 fields is skipped, and so is a line with a
\* field after the token that float() rejects.
parsed_rows(lines, upto) ==
  IF upto = 0 THEN <<>>
  ELSE LET parts == lines[upto]
           rest == parsed_rows(lines, upto - 1)
       IN IF Len(parts) < 3 THEN rest
          ELSE IF \E j \in 2..Len(parts) : ~parts[j].num THEN rest
          ELSE Append(rest, [j \in 1..(Len(parts) - 1) |-> parts[j + 1].val])

\* np.stack that turns an empty list into the empty matrix
stack_allows_empty(vectors) ==
  IF vectors = <<>> THEN [status |-> "ok", data |-> NoMatrix]
  ELSE IF \E i \in 1..Len(vectors) : Len(vectors[i]) # Len(vectors[1])
  THEN [status |-> "ValueError", data |-> NoMatrix]
  ELSE [status |-> "ok",
        data |-> Matrix(Len(vectors), Len(vectors[1]),
                        [i \in 1..(Len(vectors) * Len(vectors[1])) |->
                           vectors[((i - 1) \div Len(vectors[1])) + 1]
                                  [((i - 1) % Len(vectors[1])) + 1]])]

\* np.stack(vectors, axis=0): ValueError on an empty list and on rows of
\* unequal length, else the matrix of the rows
stack(vectors) ==
  LET d == Len(vectors[1])
  IN IF vectors = <<>> THEN [status |-> "ValueError", data |-> NoMatrix]
     ELSE IF \E i \in 1..Len(vectors) : Len(vectors[i]) # d
     THEN [status |-> "ValueError", data |-> NoMatrix]
     ELSE [status |-> "ok",
           data |-> Matrix(Len(vectors), d,
                           [i \in 1..(Len(vectors) * d) |->
                              vectors[((i - 1) \div d) + 1][((i - 1) % d) + 1]])]

\* load_embeddings that stops one line late: `i > max_vocab` at line 56
load_embeddings_cap_inclusive(lines, max_vocab) ==
  LET upto == IF max_vocab.given THEN Min(Len(lines), Max(max_vocab.n, 0) + 1)
              ELSE Len(lines)
  IN CHOOSE r \in {stack(vectors) : vectors \in {parsed_rows(lines, upto)}} : TRUE

\* load_embeddings(path, max_vocab) on a file whose lines split into `lines`:
\* the first max_vocab lines are read (all without a cap), then stacked
load_embeddings(lines, max_vocab) ==
  LET upto == IF max_vocab.given THEN Min(Len(lines), Max(max_vocab.n, 0))
              ELSE Len(lines)
  IN CHOOSE r \in {stack(vectors) : vectors \in {parsed_rows(lines, upto)}} : TRUE

RECURSIVE sum_squares(_, _, _)
\* the sum of data[i]^2 for lo <= i <= hi
sum_squares(data, lo, hi) ==
  IF lo > hi THEN 0
  ELSE IF lo = hi THEN data[lo] * data[lo]
  ELSE LET mid == (lo + hi) \div 2
       IN sum_squares(data, lo, mid) + sum_squares(data, mid + 1, hi)

RECURSIVE isqrt_from(_, _)
isqrt_from(n, r) == IF (r + 1) * (r + 1) > n THEN r ELSE isqrt_from(n, r + 1)

RECURSIVE isqrt(_)
\* the integer part of the square root of n >= 0
isqrt(n) ==
  IF n < 4 THEN isqrt_from(n, 0)
  ELSE LET r == 2 * isqrt(n \div 4)
       IN IF (r + 1) * (r + 1) > n THEN r ELSE r + 1

RECURSIVE total(_, _)
\* f[1] + ... + f[n]
total(f, n) == IF n = 0 THEN 0 ELSE f[n] + total(f, n - 1)

\* a / b rounded to the nearest integer, b > 0
div_round(a, b) ==
  IF a >= 0 THEN (2 * a + b) \div (2 * b) ELSE -((2 * (-a) + b) \div (2 * b))

\* the largest sum of squares whose square root is taken without guard bits
NormRange == Pow2(28)

RECURSIVE guard_bits(_)
\* how many times a sum of squares ss > 0 can be multiplied by 4 and stay
\* below 4 * NormRange: floats keep their relative precision at every
\* magnitude, so the norm of a small row gets more fractional bits
guard_bits(ss) == IF ss >= NormRange THEN 0 ELSE 1 + guard_bits(4 * ss)

\* np.linalg.norm of the values data[lo..hi]: [n, g], the norm in units of
\* 1 / 2^g of the unit the values are held in; [n |-> 0] for an all-zero row
row_norm(data, lo, hi) ==
  CHOOSE r \in {IF ss = 0 THEN [n |-> 0, g |-> 0]
                ELSE [n |-> isqrt(ss * Pow2(2 * guard_bits(ss))),
                      g |-> guard_bits(ss)] :
                  ss \in {sum_squares(data, lo, hi)}} : TRUE

\* fractional bits of the values of a matrix of tiny values: such a value x
\* is held as the integer x * 2^TinyBits
TinyBits == 40

\* the floor 1e-10 that line 92 puts under the norms: n / 2^bits
EPSILON == [n |-> 56295, bits |-> 49]

\* norms < 1e-10 for the norm [n, g] of a row whose values are held with
\* `frac` fractional bits: n / 2^(frac + g) < EPSILON.n / 2^EPSILON.bits
below_epsilon(norm, frac) ==
  LET d == frac + norm.g - EPSILON.bits
  IN IF norm.n = 0 THEN TRUE
     ELSE IF d <= 0
     THEN -d <= 16 /\ norm.n <= (EPSILON.n - 1) \div Pow2(-d)
     ELSE d > 15 \/ norm.n < EPSILON.n * Pow2(d)

\* lines 92-93: data / np.maximum(norms, 1e-10), for data held with `frac`
\* fractional bits (frac <= EPSILON.bits); the quotients are held with
\* FracBits.  A row whose norm is at least 1e-10 is divided by its norm, a
\* row whose norm is below is divided by 1e-10
divide_rows(data, norms, frac) ==
  Matrix(data.rows, data.cols,
         [i \in 1..(data.rows * data.cols) |->
            LET norm == norms[((i - 1) \div data.cols) + 1]
            IN IF data.data[i] = 0 THEN 0
               ELSE IF below_epsilon(norm, frac)
               THEN div_round(data.data[i] * Scale * Pow2(EPSILON.bits - frac),
                              EPSILON.n)
               ELSE div_round(data.data[i] * Scale * Pow2(norm.g), norm.n)])

\* l2_normalize(data) for data held with `frac` fractional bits: the norms of
\* the rows (line 91), the floor (line 92), the division (line 93).  (The
\* norms are computed once, then every value is divided.)
l2_normalize_scaled(data, frac) ==
  CHOOSE m \in {divide_rows(data, norms, frac) :
                  norms \in {[r \in 1..data.rows |->
                     row_norm(data.data, (r - 1) * data.cols + 1,
                              r * data.cols)]}} : TRUE

\* l2_normalize(data) on a matrix of ordinary values
l2_normalize(data) == l2_normalize_scaled(data, FracBits)

RECURSIVE abs_sum(_, _, _)
\* |d[lo]| + ... + |d[hi]|, added by halves
abs_sum(d, lo, hi) ==
  IF lo > hi THEN 0
  ELSE IF lo = hi THEN Abs(d[lo])
  ELSE abs_sum(d, lo, (lo + hi) \div 2) + abs_sum(d, ((lo + hi) \div 2) + 1, hi)

\* the sum of the absolute values of data
abs_total(data) == abs_sum(data.data, 1, data.rows * data.cols)

\* whether every row of data equals the first
equal_rows(data) ==
  \A i \in 1..(data.rows * data.cols) :
    data.data[i] = data.data[((i - 1) % data.cols) + 1]

\* the ways PCA(n_components).fit_transform(data) can end: ValueError unless
\* n_components <= min(rows, cols); otherwise the rows are centred and
\* projected on the principal axes.  The projection is followed value by
\* value for data of at most two rows.  The centred rows of two rows r1, r2
\* are +(r1 - r2)/2 and -(r1 - r2)/2: the first axis runs along them, so the
\* first column holds plus and minus their norm and every other column 0; a
\* single row is centred to 0.  Which row gets the plus sign depends on the
\* release of scikit-learn: both are outcomes.  Equal rows, however many, are
\* all centred to 0.  Of any other data the axes are not computed: the result
\* is some rows x n_components matrix of projections on unit axes, each no
\* longer than its centred row, which is no longer than abs_total(data).
fit_transform(data, n_components) ==
  IF n_components > Min(data.rows, data.cols)
  THEN {[status |-> "ValueError", data |-> NoMatrix]}
  ELSE IF equal_rows(data)
  THEN {[status |-> "ok",
         data |-> Matrix(data.rows, n_components,
                         [i \in 1..(data.rows * n_components) |-> 0])]}
  ELSE IF data.rows > 2
  THEN [status : {"ok"},
        data : [rows : {data.rows}, cols : {n_components},
                data : [1..(data.rows * n_components) ->
                          (-abs_total(data))..abs_total(data)]]]
  ELSE LET diff == [j \in 1..data.cols |->
                      IF data.rows < 2 THEN 0
                      ELSE data.data[j] - data.data[data.cols + j]]
           norm == row_norm(diff, 1, data.cols)
           half == div_round(norm.n, 2 * Pow2(norm.g))
       IN {[status |-> "ok",
            data |-> Matrix(data.rows, n_components,
                       [i \in 1..(data.rows * n_components) |->
                          IF (i - 1) % n_components # 0 THEN 0
                          ELSE IF i = 1 THEN flip * half ELSE -flip * half])] :
             flip \in {1, -1}}

\* pca_reduce that pads with zero columns when asked for more dimensions than
\* the input has
pca_reduce_padding(data, target_dim) ==
  IF data.cols = target_dim THEN {[status |-> "ok", data |-> data]}
  ELSE IF target_dim > data.cols
  THEN {[status |-> "ok",
         data |-> Matrix(data.rows, target_dim,
                         [i \in 1..(data.rows * target_dim) |->
                            IF ((i - 1) % target_dim) + 1 > data.cols THEN 0
                            ELSE data.data[((i - 1) \div target_dim) * data.cols
                                           + ((i - 1) % target_dim) + 1]])]}
  ELSE fit_transform(data, target_dim)

\* pca_reduce without the early return of lines 76-78: the fit always runs
pca_reduce_always_fits(data, target_dim) == fit_transform(data, target_dim)

\* the ways pca_reduce(data, target_dim) can end: with the input itself when
\* it has target_dim columns; otherwise as
\* PCA(n_components=target_dim).fit_transform(data) does
pca_reduce(data, target_dim) ==
  IF data.cols = target_dim THEN {[status |-> "ok", data |-> data]}
  ELSE fit_transform(data, target_dim)

\* number of vector lines of the full corpus
MainVectors == 10

\* the values the vectors of a corpus are filled with: 3 and -0.5
CorpusFills == {3 * Scale, -(Scale \div 2)}

\* a vector line of a corpus of dimension d: a token and d numbers, all `fill`
VecLine(d, fill) == <<Word>> \o [j \in 1..d |-> Num(fill)]

\* vector line i of a corpus of vectors that differ: 3, then 0.25 on the odd
\* lines and -0.25 on the even ones, then zeros
MixedLine(d, i) ==
  <<Word>> \o [j \in 1..d |->
                Num(IF j = 1 THEN 3 * Scale
                    ELSE IF j # 2 THEN 0
                    ELSE IF i % 2 = 1 THEN Scale \div 4 ELSE -(Scale \div 4))]

\* a FastText header line: the vocabulary size and the dimension
HeaderLine(d) == <<Num(MainVectors * Scale), Num(d * Scale)>>

\* a line whose second number does not parse
BadLine(d) == <<Word>> \o [j \in 1..d |-> IF j = 2 THEN Word ELSE Num(Scale)]

\* the corpus file [vectors, dim, junk, fill, mixed]: `vectors` vector lines
\* of dimension dim, equal ones filled with `fill` or, when mixed, lines that
\* differ; with junk, behind a header line and with a malformed line after
\* the first vector
CorpusLines(c) ==
  LET vecs == [i \in 1..c.vectors |->
                 IF c.mixed THEN MixedLine(c.dim, i) ELSE VecLine(c.dim, c.fill)]
  IN IF ~c.junk THEN vecs
     ELSE <<HeaderLine(c.dim)>>
            \o (IF c.vectors = 0 THEN <<BadLine(c.dim)>>
                ELSE <<vecs[1], BadLine(c.dim)>> \o SubSeq(vecs, 2, c.vectors))

\* the corpora tried: none, two and MainVectors equal vectors, and two
\* vectors that differ
Corpora ==
  {[vectors |-> v, dim |-> d, junk |-> j, fill |-> f, mixed |-> FALSE] :
     v \in {0, 2, MainVectors}, d \in {4, TARGET_DIM}, j \in BOOLEAN,
     f \in CorpusFills}
  \cup
  {[vectors |-> 2, dim |-> d, junk |-> j, fill |-> 3 * Scale, mixed |-> TRUE] :
     d \in {4, TARGET_DIM}, j \in BOOLEAN}

\* the command lines tried: -k, --max-vocab, --no-pca, --batch-size
MainArgs ==
  {[k |-> k, max_vocab |-> c, no_pca |-> np, batch_size |-> b] :
     k \in {0, 1, 3, MainVectors + 1, MAX_K, MAX_K + 1, 70000},
     c \in {NoCap, Cap(0), Cap(3)}, np \in BOOLEAN, b \in {0, 2, 4, 4096}}

\* the frame of main: its arguments, the corpus file, the position, the value
\* of `data` and of `centroids`, the stages run so far and the exit status
MnFrame(args, corpus) ==
  [pc |-> "check_k", args |-> args, corpus |-> corpus, data |-> NoMatrix,
   centroids |-> NoMatrix, clustered |-> NoMatrix, stages |-> <<>>,
   exit |-> -1, error |-> "none"]

\* main ends with status 1: sys.exit(1), or an exception nobody catches
MnExit(why) == [mn EXCEPT !.pc = "exited", !.exit = 1, !.error = why]

\* lines 190-227: main starts on a command line and a corpus file
MnStart(args, corpus) ==
  /\ mn.pc = "idle"
  /\ mn' = MnFrame(args, corpus)
  /\ UNCHANGED codec_vars
  /\ UNCHANGED <<km, call, es>>

\* the check of line 229 against a ceiling one bit too wide
MnCheckK_wide ==
  /\ mn.pc = "check_k"
  /\ mn' = IF mn.args.k > 2 * MAX_K THEN MnExit("k exceeds capacity")
           ELSE [mn EXCEPT !.pc = "load"]
  /\ UNCHANGED codec_vars
  /\ UNCHANGED <<km, call, es>>

\* lines 229-231: the ceiling on k
MnCheckK ==
  /\ mn.pc = "check_k"
  /\ mn' = IF mn.args.k > MAX_K THEN MnExit("k exceeds capacity")
           ELSE [mn EXCEPT !.pc = "load"]
  /\ UNCHANGED codec_vars
  /\ UNCHANGED <<km, call, es>>

\* line 234: load_embeddings
MnLoad ==
  /\ mn.pc = "load"
  /\ LET r == load_embeddings(CorpusLines(mn.corpus), mn.args.max_vocab)
         ran == Append(mn.stages, "load")
     IN mn' = IF r.status # "ok" THEN [MnExit(r.status) EXCEPT !.stages = ran]
              ELSE [mn EXCEPT !.pc = "check_n", !.data = r.data, !.stages = ran]
  /\ UNCHANGED codec_vars
  /\ UNCHANGED <<km, call, es>>

\* the check of line 236 off by one: data.shape[0] + 1 < args.k
MnCheckN_off_by_one ==
  /\ mn.pc = "check_n"
  /\ mn' = IF mn.data.rows + 1 < mn.args.k THEN MnExit("too few vectors")
           ELSE [mn EXCEPT !.pc = "reduce"]
  /\ UNCHANGED codec_vars
  /\ UNCHANGED <<km, call, es>>

\* lines 236-241: at least k vectors
MnCheckN ==
  /\ mn.pc = "check_n"
  /\ mn' = IF mn.data.rows < mn.args.k THEN MnExit("too few vectors")
           ELSE [mn EXCEPT !.pc = "reduce"]
  /\ UNCHANGED codec_vars
  /\ UNCHANGED <<km, call, es>>

\* lines 243-251 without the elif: --no-pca goes on whatever the dimension
MnReduce_unchecked ==
  /\ mn.pc = "reduce"
  /\ IF ~mn.args.no_pca
     THEN \E r \in pca_reduce(mn.data, TARGET_DIM) :
            LET ran == Append(mn.stages, "reduce")
            IN mn' = IF r.status # "ok"
                     THEN [MnExit(r.status) EXCEPT !.stages = ran]
                     ELSE [mn EXCEPT !.pc = "normalize", !.data = r.data,
                                     !.stages = ran]
     ELSE mn' = [mn EXCEPT !.pc = "normalize"]
  /\ UNCHANGED codec_vars
  /\ UNCHANGED <<km, call, es>>

\* lines 243-251: pca_reduce unless --no-pca, which needs TARGET_DIM columns
MnReduce ==
  /\ mn.pc = "reduce"
  /\ IF ~mn.args.no_pca
     THEN \E r \in pca_reduce(mn.data, TARGET_DIM) :
            LET ran == Append(mn.stages, "reduce")
            IN mn' = IF r.status # "ok"
                     THEN [MnExit(r.status) EXCEPT !.stages = ran]
                     ELSE [mn EXCEPT !.pc = "normalize", !.data = r.data,
                                     !.stages = ran]
     ELSE mn' = IF mn.data.cols # TARGET_DIM THEN MnExit("dimension")
                ELSE [mn EXCEPT !.pc = "normalize"]
  /\ UNCHANGED codec_vars
  /\ UNCHANGED <<km, call, es>>

\* lines 253-255: l2_normalize on the data
MnNormalize ==
  /\ mn.pc = "normalize"
  /\ mn' = [mn EXCEPT !.pc = "cluster", !.data = l2_normalize(mn.data),
                      !.stages = Append(mn.stages, "normalize")]
  /\ UNCHANGED codec_vars
  /\ UNCHANGED <<km, call, es>>

\* the least and the greatest value of column col of data
column_least(data, col) ==
  CHOOSE v \in {data.data[(i - 1) * data.cols + col] : i \in 1..data.rows} :
    \A i \in 1..data.rows : v <= data.data[(i - 1) * data.cols + col]

column_greatest(data, col) ==
  CHOOSE v \in {data.data[(i - 1) * data.cols + col] : i \in 1..data.rows} :
    \A i \in 1..data.rows : data.data[(i - 1) * data.cols + col] <= v

\* the columns of data whose values are not all equal
mixed_columns(data) ==
  {col \in 1..data.cols : column_least(data, col) < column_greatest(data, col)}

\* the k x cols matrices whose values lie between the least and the greatest
\* value of their column in data: as a set that is asked whether it holds a
\* matrix, never listed
within_columns(data, k) ==
  LET lo == [col \in 1..data.cols |-> column_least(data, col)]
      hi == [col \in 1..data.cols |-> column_greatest(data, col)]
  IN {m \in [rows : {k}, cols : {data.cols},
             data : [1..(k * data.cols) -> Int]] :
        \A c \in 1..(k * data.cols) :
          /\ lo[((c - 1) % data.cols) + 1] <= m.data[c]
          /\ m.data[c] <= hi[((c - 1) % data.cols) + 1]}

\* the same matrices listed one by one, for data with few mixed columns: the
\* values of the mixed columns vary, every other column holds its one value
listed_within_columns(data, k) ==
  LET mixed == mixed_columns(data)
      col(c) == ((c - 1) % data.cols) + 1
      cells == {c \in 1..(k * data.cols) : col(c) \in mixed}
      lo == [c \in mixed |-> column_least(data, c)]
      hi == [c \in mixed |-> column_greatest(data, c)]
      span == UNION {lo[c]..hi[c] : c \in mixed}
      fixed == [c \in 1..data.cols |-> data.data[c]]
  IN {Matrix(k, data.cols,
             [c \in 1..(k * data.cols) |->
                IF c \in cells THEN f[c] ELSE fixed[col(c)]]) :
        f \in {g \in [cells -> span] :
                 \A c \in cells : lo[col(c)] <= g[c] /\ g[c] <= hi[col(c)]}}

\* the number of cells of a matrix up to which its values are listed
ListedCells == 2

\* the values kmeans.cluster_centers_ (line 169) can hold after a call on
\* `data` (at least one row) that returns k centres.  The estimator seeds
\* every centre on a row of data, moves a centre to
\* (centre * weight + rows assigned) / (weight + their number), and reassigns
\* a centre to a row of data: a centre is always a weighted mean of rows of
\* data.  Which mean depends on the draws of the estimator's generator, which
\* are not followed here: every coordinate lies between the least and the
\* greatest value of its column.  For data of equal rows that is one matrix,
\* k copies of the row.
cluster_centers(data, k) ==
  IF k * Cardinality(mixed_columns(data)) <= ListedCells
  THEN listed_within_columns(data, k)
  ELSE within_columns(data, k)

\* line 258: kmeans_cluster(data, args.k, batch_size=args.batch_size), with
\* the default max_iter
MnCluster ==
  /\ mn.pc = "cluster"
  /\ \E out \in kmeans_cluster_outcomes(mn.data.rows, mn.data.cols, mn.args.k,
                                        mn.args.batch_size, DEFAULT_MAX_ITER) :
       LET ran == Append(mn.stages, "cluster")
       IN IF out.status # "ok"
          THEN mn' = [MnExit(out.status) EXCEPT !.stages = ran]
          ELSE \E got \in cluster_centers(mn.data, out.rows) :
                 mn' = [mn EXCEPT !.pc = "normalize_centroids",
                                  !.centroids = got, !.clustered = got,
                                  !.stages = ran]
  /\ UNCHANGED codec_vars
  /\ UNCHANGED <<km, call, es>>

\* line 261 with its result dropped: l2_normalize(centroids) is called and the
\* centroids go to save_codebook as clustered
MnNormalizeCentroids_discarded ==
  /\ mn.pc = "normalize_centroids"
  /\ mn' = [mn EXCEPT !.pc = "save",
                      !.stages = Append(mn.stages, "normalize")]
  /\ UNCHANGED codec_vars
  /\ UNCHANGED <<km, call, es>>

\* line 261: l2_normalize on the centroids
MnNormalizeCentroids ==
  /\ mn.pc = "normalize_centroids"
  /\ mn' = [mn EXCEPT !.pc = "save", !.centroids = l2_normalize(mn.centroids),
                      !.stages = Append(mn.stages, "normalize")]
  /\ UNCHANGED codec_vars
  /\ UNCHANGED <<km, call, es>>

\* lines 264-268: save_codebook, then the summary and a normal return
MnSave ==
  /\ mn.pc = "save"
  /\ LET r == save_codebook(mn.centroids, file)
         ran == Append(mn.stages, "save")
     IN /\ file' = r.file
        /\ save_status' = r.status
        /\ centroids' = mn.centroids
        /\ last_op' = "save"
        /\ mn' = IF r.status # "ok" THEN [MnExit(r.status) EXCEPT !.stages = ran]
                 ELSE [mn EXCEPT !.pc = "exited", !.exit = 0, !.stages = ran]
  /\ UNCHANGED <<loaded, edits, km, call, es>>

MnInit ==
  /\ file \in {NoFile, OldFile}
  /\ centroids = NoMatrix
  /\ save_status = "none"
  /\ loaded = NotLoaded
  /\ edits = 0
  /\ last_op = "init"
  /\ km = KmIdle
  /\ mn = MnIdle
  /\ call = NoCall
  /\ es = EsIdle

MnNext ==
  \/ \E args \in MainArgs, corpus \in Corpora : MnStart(args, corpus)
  \/ MnCheckK
  \/ MnLoad
  \/ MnCheckN
  \/ MnReduce
  \/ MnNormalize
  \/ MnCluster
  \/ MnNormalizeCentroids
  \/ MnSave

SpecMain == MnInit /\ [][MnNext]_vars

(* ------------------------------------------------------------------------ *)
(* Codec operations on the file at the output path                          *)
(* ------------------------------------------------------------------------ *)


CodecInit ==
  /\ file \in {NoFile, OldFile}
  /\ centroids = NoMatrix
  /\ save_status = "none"
  /\ loaded = NotLoaded
  /\ edits = 0
  /\ last_op = "init"
  /\ km = KmIdle
  /\ mn = MnIdle
  /\ call = NoCall
  /\ es = EsIdle

\* a caller runs save_codebook(m, path)
Save(m) ==
  LET r == save_codebook(m, file)
  IN /\ last_op = "init"
     /\ centroids' = m
     /\ file' = r.file
     /\ save_status' = r.status
     /\ last_op' = "save"
     /\ UNCHANGED <<loaded, edits>>
     /\ UNCHANGED <<km, mn, call, es>>

\* lengths a file of n bytes is cut to: inside the header, at its end, inside
\* and at the end of the first row, one value and one byte short of the end
TruncPoints(n) ==
  {0, 3, 4, 6, 8, 11, 12, 15, 16, 17, 20, 16 + 4 * TARGET_DIM, n - 4 * TARGET_DIM, n - 4, n - 1}
    \cap 0..(n - 1)

\* the file is cut short (a partial write or a damaged copy)
Truncate(n) ==
  /\ file.exists /\ edits < MaxEdits
  /\ n \in TruncPoints(Len(file.bytes))
  /\ file' = File(SubSeq(file.bytes, 1, n))
  /\ edits' = edits + 1
  /\ last_op' = "truncate"
  /\ loaded' = NotLoaded
  /\ UNCHANGED <<centroids, save_status, km, mn, call, es>>

\* words written over a header field: another magic, version, entry count, dim
Patches ==
  {[at |-> 0, word |-> <<86, 88, 67, 65>>], [at |-> 0, word |-> <<66, 67, 88, 86>>]}
    \cup {[at |-> 4, word |-> pack_u32(v)] : v \in {0, 2}}
    \cup {[at |-> 8, word |-> pack_u32(v)] : v \in 0..(MaxRows + 1)}
    \cup {[at |-> 12, word |-> pack_u32(v)] : v \in {0, 4, SLOT_DIM - 1, SLOT_DIM + 1}}

\* a header field of the file is overwritten
Patch(p) ==
  /\ file.exists /\ edits < MaxEdits
  /\ Len(file.bytes) >= p.at + 4
  /\ file' = File([i \in 1..Len(file.bytes) |->
                     IF i > p.at /\ i <= p.at + 4 THEN p.word[i - p.at] ELSE file.bytes[i]])
  /\ edits' = edits + 1
  /\ last_op' = "patch"
  /\ loaded' = NotLoaded
  /\ UNCHANGED <<centroids, save_status, km, mn, call, es>>

\* the training script runs load_codebook(path)
Load ==
  /\ last_op # "load"
  /\ loaded' = load_codebook(file)
  /\ last_op' = "load"
  /\ UNCHANGED <<file, centroids, save_status, edits, km, mn, call, es>>

CodecNext ==
  \/ \E m \in CodecInputs : Save(m)
  \/ \E n \in 0..(16 + 4 * TARGET_DIM * (MaxRows + 1)) : Truncate(n)
  \/ \E p \in Patches : Patch(p)
  \/ Load

SpecCodec == CodecInit /\ [][CodecNext]_vars

(* ------------------------------------------------------------------------ *)
(* The pipeline functions, called one at a time                             *)
(* ------------------------------------------------------------------------ *)

\* widest matrix handed to l2_normalize and pca_reduce on their own
MaxCols == 3

\* longest corpus file handed to load_embeddings on its own
MaxLines == 3

\* values of the rows normalized: 0, the smallest step, -1, 0.5 and 3
RowValues == {0, 1, -Scale, Scale \div 2, 3 * Scale}

\* the matrices normalized: every single row, and every row under an all-zero
\* row and under the row (1, 0, ..., 0)
NormalizeInputs ==
  UNION {{Matrix(1, Len(row), row),
          Matrix(2, Len(row), [i \in 1..Len(row) |-> 0] \o row),
          Matrix(2, Len(row),
                 [i \in 1..Len(row) |-> IF i = 1 THEN Scale ELSE 0] \o row)} :
           row \in UNION {[1..c -> RowValues] : c \in 1..MaxCols}}

\* tiny values of the rows normalized, in units of 2^-TinyBits: 0, 2.7e-12,
\* -3.6e-12, 9.9e-11 (just below 1e-10), 1.0004e-10 (just above) and 2.7e-10
TinyValues == {0, 3, -4, 109, 110, 300}

\* the matrices of tiny values normalized: every single row, and every row
\* under an all-zero row
TinyInputs ==
  UNION {{Matrix(1, Len(row), row),
          Matrix(2, Len(row), [i \in 1..Len(row) |-> 0] \o row)} :
           row \in UNION {[1..c -> TinyValues] : c \in 1..(MaxCols - 1)}}

\* the matrices reduced, and the target dimensions asked for
ReduceInputs ==
  {GenMatrix(r, c, pat) : r \in 1..MaxCols, c \in 1..MaxCols, pat \in 0..NumPatterns}

ReduceTargets == 1..(MaxCols + 1)

\* the calls of pca_reduce tried: those whose outcomes are followed value
\* by value (pattern 0 fills a matrix with zeros)
ReduceCalls ==
  {c \in [data : ReduceInputs, target_dim : ReduceTargets] :
     \/ c.data.cols = c.target_dim
     \/ c.target_dim > Min(c.data.rows, c.data.cols)
     \/ c.data.rows <= 2
     \/ equal_rows(c.data)}

\* the lines a corpus file is made of: too short (1 and 2 fields), two
\* well-formed lines of dimension 2, a well-formed line of dimension 3, and
\* lines with a field float() rejects
LineKinds ==
  {<<Word>>, <<Word, Num(Scale)>>,
   <<Word, Num(Scale), Num(2 * Scale)>>, <<Word, Num(-Scale), Num(0)>>,
   <<Word, Num(Scale), Num(Scale), Num(Scale)>>,
   <<Word, Num(Scale), Word>>, <<Word, Word, Num(Scale)>>}

ReaderInputs == UNION {[1..len -> LineKinds] : len \in 0..MaxLines}

ReaderCaps == {NoCap} \cup {Cap(c) : c \in 0..MaxLines}

\* l2_normalize(data) is called on a matrix held with `frac` fractional bits
CallNormalize(data, frac) ==
  /\ call.op = "none"
  /\ call' = [op |-> "l2_normalize", arg |-> data, frac |-> frac,
              out |-> l2_normalize_scaled(data, frac)]
  /\ UNCHANGED codec_vars
  /\ UNCHANGED <<km, mn, es>>

\* pca_reduce(data, target_dim) is called
CallReduce(data, target_dim) ==
  /\ call.op = "none"
  /\ \E out \in pca_reduce(data, target_dim) :
     call' = [op |-> "pca_reduce",
              arg |-> [data |-> data, target_dim |-> target_dim],
              out |-> out]
  /\ UNCHANGED codec_vars
  /\ UNCHANGED <<km, mn, es>>

\* load_embeddings(path, max_vocab) is called on a file of the given lines
CallLoad(lines, max_vocab) ==
  /\ call.op = "none"
  /\ call' = [op |-> "load_embeddings",
              arg |-> [lines |-> lines, max_vocab |-> max_vocab],
              out |-> load_embeddings(lines, max_vocab)]
  /\ UNCHANGED codec_vars
  /\ UNCHANGED <<km, mn, es>>

FnInit ==
  /\ file = NoFile
  /\ centroids = NoMatrix
  /\ save_status = "none"
  /\ loaded = NotLoaded
  /\ edits = 0
  /\ last_op = "init"
  /\ km = KmIdle
  /\ mn = MnIdle
  /\ call = NoCall
  /\ es = EsIdle

FnNext ==
  \/ \E data \in NormalizeInputs : CallNormalize(data, FracBits)
  \/ \E data \in TinyInputs : CallNormalize(data, TinyBits)
  \/ \E c \in ReduceCalls : CallReduce(c.data, c.target_dim)
  \/ \E lines \in ReaderInputs, max_vocab \in ReaderCaps :
       CallLoad(lines, max_vocab)

SpecFunctions == FnInit /\ [][FnNext]_vars

(* ------------------------------------------------------------------------ *)
(* kmeans_cluster followed on its vectors                                   *)
(* ------------------------------------------------------------------------ *)

\* most vectors of a call followed on its vectors
MaxPoints == 4

\* the coordinates the vectors are taken from: the vectors have one
\* coordinate each, a whole number
EsPoints == <<0, 0, 3, 1, -3>>

\* the data of a call on n vectors
EsData(n) == [i \in 1..n |-> EsPoints[((i - 1) % Len(EsPoints)) + 1]]

\* the cluster counts of the calls followed
EsClusters == {1, 2}

\* data[indices]
Rows(X, indices) == [i \in 1..Len(indices) |-> X[indices[i]]]

RECURSIVE Gcd(_, _)
\* the greatest common divisor of a >= 0 and b >= 0
Gcd(a, b) == IF b = 0 THEN a ELSE Gcd(b, a % b)

\* the centres and the inertia are followed exactly, as fractions in lowest
\* terms: the value n / d, d > 0
Frac(n, d) ==
  LET g == Gcd(Abs(n), d)
  IN [num |-> n \div g, den |-> d \div g]

\* a + b
frac_add(a, b) == Frac(a.num * b.den + b.num * a.den, a.den * b.den)

\* no inertia yet: the estimator has not been fitted, or no check has run
NoInertia == [num |-> -1, den |-> 1]

\* the distance of the vector x to the centre c, times c.den
reach(x, c) == Abs(x * c.den - c.num)

\* the squared distance of the vector x to the centre c
sq_dist(x, c) == Frac(reach(x, c) * reach(x, c), c.den * c.den)

\* the index of the centre nearest to x, the first one on a tie (argmin)
nearest(centers, x) ==
  CHOOSE j \in 1..Len(centers) :
    \A i \in 1..Len(centers) :
      /\ reach(x, centers[j]) * centers[i].den
           <= reach(x, centers[i]) * centers[j].den
      /\ i < j => reach(x, centers[j]) * centers[i].den
                    < reach(x, centers[i]) * centers[j].den

\* the label of every row of X
labels(centers, X) == [i \in 1..Len(X) |-> nearest(centers, X[i])]

RECURSIVE frac_total(_, _)
\* f[1] + ... + f[n] of fractions
frac_total(f, n) ==
  IF n = 0 THEN Frac(0, 1) ELSE frac_add(frac_total(f, n - 1), f[n])

\* the inertia of the rows of X: the sum of their squared distances to their
\* nearest centres, added up centre by centre
inertia_of(centers, X) ==
  frac_total([j \in 1..Len(centers) |->
                Frac(total([i \in 1..Len(X) |->
                              IF nearest(centers, X[i]) = j
                              THEN reach(X[i], centers[j]) * reach(X[i], centers[j])
                              ELSE 0], Len(X)),
                     centers[j].den * centers[j].den)],
             Len(centers))

\* how many rows of X the update step assigns to each centre
assigned_rows(centers, X) ==
  [j \in 1..Len(centers) |->
     Cardinality({i \in 1..Len(X) : nearest(centers, X[i]) = j})]

\* the centres after the update step on the rows of X: a centre with rows
\* assigned becomes (centre * weight + the sum of its rows) / (weight + their
\* number), a centre with none stays
updated_centers(centers, counts, X) ==
  LET m == assigned_rows(centers, X)
      s(j) == total([i \in 1..Len(X) |->
                       IF nearest(centers, X[i]) = j THEN X[i] ELSE 0], Len(X))
  IN [j \in 1..Len(centers) |->
        IF m[j] = 0 THEN centers[j]
        ELSE Frac(centers[j].num * counts[j] + s(j) * centers[j].den,
                  centers[j].den * (counts[j] + m[j]))]

\* the weight of every centre after the update step
updated_counts(centers, counts, X) ==
  [j \in 1..Len(centers) |-> counts[j] + assigned_rows(centers, X)[j]]

\* whether this step may reassign centres, and the samples counted since the
\* last step that might: [fire, since]
random_reassign(est) ==
  LET since == est.since + est.bsz
      fire == (\E j \in 1..Len(est.counts) : est.counts[j] = 0)
                \/ since >= 10 * Len(est.counts)
  IN [fire |-> fire, since |-> IF fire THEN 0 ELSE since]

\* the centres a step on n_samples rows reassigns, given their weights after
\* the update: those below reassignment_ratio (0.01) of the largest weight,
\* and no more than half the number of rows, the lightest first
to_reassign(weight, n_samples) ==
  LET k == Len(weight)
      top == CHOOSE w \in {weight[j] : j \in 1..k} :
               \A j \in 1..k : weight[j] <= w
      low == {j \in 1..k : 100 * weight[j] < top}
      rank(j) == Cardinality({i \in 1..k :
                   \/ weight[i] < weight[j]
                   \/ weight[i] = weight[j] /\ i < j})
  IN IF 2 * Cardinality(low) > n_samples
     THEN {j \in low : rank(j) < n_samples \div 2}
     ELSE low

\* the centres the step of est on the rows of X reassigns
reassigned(est, X) ==
  IF random_reassign(est).fire
  THEN to_reassign(updated_counts(est.centers, est.counts, X), Len(X))
  ELSE {}

\* the estimator before its first partial_fit on the rows of X: the centres
\* are the rows `seeds` of X, drawn by the estimator's own generator
est_init(X, k, batch_size, seeds) ==
  [centers |-> [j \in 1..k |-> Frac(X[seeds[j]], 1)],
   initial |-> [j \in 1..k |-> Frac(X[seeds[j]], 1)],
   counts  |-> [j \in 1..k |-> 0],
   hits    |-> [j \in 1..k |-> 0],
   labelled |-> [j \in 1..k |-> 0],
   since   |-> 0,
   bsz     |-> Min(batch_size, Len(X)),
   inertia |-> NoInertia]

\* one mini-batch step of partial_fit on the rows of X; `picks` are the rows
\* its generator draws for the centres it reassigns. `hits` counts the rows
\* the update assigned to each centre, `labelled` the rows given to it when
\* labels_ and inertia_ are computed from the batch after the step
mini_batch_step(est, X, picks) ==
  LET k == Len(est.centers)
      moved == updated_centers(est.centers, est.counts, X)
      weight == updated_counts(est.centers, est.counts, X)
      gone == reassigned(est, X)
      place(j) == Cardinality({i \in gone : i <= j})
      floor == CHOOSE w \in {weight[j] : j \in (1..k) \ gone} :
                 \A j \in (1..k) \ gone : w <= weight[j]
      centers == [j \in 1..k |->
                    IF j \in gone THEN Frac(X[picks[place(j)]], 1) ELSE moved[j]]
  IN [centers |-> centers,
      initial |-> est.initial,
      counts  |-> [j \in 1..k |-> IF j \in gone THEN floor ELSE weight[j]],
      hits    |-> [j \in 1..k |->
                     est.hits[j] + assigned_rows(est.centers, X)[j]],
      labelled |-> [j \in 1..k |->
                      est.labelled[j] + assigned_rows(centers, X)[j]],
      since   |-> random_reassign(est).since,
      bsz     |-> est.bsz,
      inertia |-> inertia_of(centers, X)]

\* the epoch caps of the calls followed; up to CHECK_EVERY epochs the one
\* convergence check of a run has no previous inertia and cannot stop it
EsEpochCaps == {1, CHECK_EVERY}

\* kmeans_cluster(data, k, batch_size, max_iter) is called on n vectors
EsCall(n, k, batch_size, max_iter) ==
  /\ es.pc = "idle"
  /\ es' = [pc         |-> "init",
            data       |-> EsData(n),
            k          |-> k,
            batch_size |-> batch_size,
            max_iter   |-> max_iter,
            epoch      |-> 0,
            b          |-> 0,
            perm       |-> <<>>,
            est        |-> [inertia |-> NoInertia],
            read       |-> NoInertia]
  /\ UNCHANGED codec_vars
  /\ UNCHANGED <<km, mn, call>>

\* the initial batch is drawn and fed: rng.choice raises ValueError when it
\* is asked for more rows than there are
EsInitialize ==
  /\ es.pc = "init"
  /\ LET n == Len(es.data)
         first == init_size(es.k, es.batch_size)
     IN \/ /\ first > n
           /\ es' = [es EXCEPT !.pc = "failed"]
        \/ /\ first <= n
           /\ \E indices \in Samples(n, first), seeds \in Samples(first, es.k) :
                LET X == Rows(es.data, indices)
                    fresh == est_init(X, es.k, es.batch_size, seeds)
                IN \E picks \in Samples(Len(X), Cardinality(reassigned(fresh, X))) :
                     es' = [es EXCEPT !.pc = "epoch",
                                      !.est = mini_batch_step(fresh, X, picks)]
  /\ UNCHANGED codec_vars
  /\ UNCHANGED <<km, mn, call>>

\* the head of the epoch loop: a new permutation, or the return of
\* kmeans.cluster_centers_ once max_iter epochs have run
EsEpoch ==
  /\ es.pc = "epoch"
  /\ \/ /\ es.epoch >= es.max_iter
        /\ es' = [es EXCEPT !.pc = "done"]
     \/ /\ es.epoch < es.max_iter
        /\ \E perm \in Perms(Len(es.data)) :
             es' = [es EXCEPT !.pc = "batch", !.b = 0, !.perm = perm]
  /\ UNCHANGED codec_vars
  /\ UNCHANGED <<km, mn, call>>

\* one pass of the batch loop: partial_fit(data[perm[start:end]])
EsBatch ==
  /\ es.pc = "batch"
  /\ LET n == Len(es.data)
         start == es.b * es.batch_size
         end == Min(start + es.batch_size, n)
         X == Rows(es.data, SubSeq(es.perm, start + 1, end))
     IN \E picks \in Samples(Len(X), Cardinality(reassigned(es.est, X))) :
          es' = [es EXCEPT
                   !.est = mini_batch_step(es.est, X, picks),
                   !.b = es.b + 1,
                   !.pc = IF es.b + 1 >= Max(1, n \div es.batch_size)
                          THEN "check" ELSE "batch"]
  /\ UNCHANGED codec_vars
  /\ UNCHANGED <<km, mn, call>>

\* the end of an epoch: every CHECK_EVERY epochs kmeans.inertia_ is read
EsCheck ==
  /\ es.pc = "check"
  /\ es' = [es EXCEPT
              !.read = IF (es.epoch + 1) % CHECK_EVERY = 0
                       THEN es.est.inertia ELSE es.read,
              !.epoch = es.epoch + 1,
              !.pc = "epoch"]
  /\ UNCHANGED codec_vars
  /\ UNCHANGED <<km, mn, call>>

EsInit ==
  /\ file = NoFile
  /\ centroids = NoMatrix
  /\ save_status = "none"
  /\ loaded = NotLoaded
  /\ edits = 0
  /\ last_op = "init"
  /\ km = KmIdle
  /\ mn = MnIdle
  /\ call = NoCall
  /\ es = EsIdle

EsNext ==
  \/ \E n \in 1..MaxPoints, k \in EsClusters,
        batch_size \in 1..MaxPoints, max_iter \in EsEpochCaps :
       EsCall(n, k, batch_size, max_iter)
  \/ EsInitialize
  \/ EsEpoch
  \/ EsBatch
  \/ EsCheck

SpecEstimator == EsInit /\ [][EsNext]_vars

(* ------------------------------------------------------------------------ *)
(* kmeans_cluster called twice in one process                               *)
(* ------------------------------------------------------------------------ *)

\* the seed of line 127, np.random.RandomState(42), and of line 120,
\* random_state=42
SEED == 42

\* a generator is its seed and the requests made of it since it was seeded.
\* The generator the process holds before the first call: numpy's global one
Earlier == [seed |-> 0, asked |-> <<>>]

\* a generator shared between calls: it goes on where the process left it
RandomState_shared(seed, earlier) == earlier

\* np.random.RandomState(seed), line 127, and check_random_state(42) in the
\* estimator built at lines 115-123: a new generator, freshly seeded, whatever
\* the process drew before
RandomState(seed, earlier) == [seed |-> seed, asked |-> <<>>]

\* a request made of a generator: "choice" is rng.choice(n, size=size,
\* replace=False), "permutation" rng.permutation(n), "seed" the estimator's
\* draw of `size` of the n rows of its first batch as centres, "reassign" its
\* draw of `size` of the n rows of a batch for the centres it reassigns
Request(op, n, size) == [op |-> op, n |-> n, size |-> size]

\* the generator after a request
Asked(gen, req) == [gen EXCEPT !.asked = Append(gen.asked, req)]

\* what a generator can yield to a request.  The arithmetic of the generator
\* is not followed: it is some function of the seed and of the requests made
\* since seeding.  `stream` holds the values of that function seen so far in
\* the process; what has not been seen can be any value the request allows
Yields(gen, req, stream) ==
  LET known == {e \in stream : e.gen = Asked(gen, req)}
  IN IF known # {} THEN {e.out : e \in known}
     ELSE IF req.op = "permutation" THEN Perms(req.n)
     ELSE Samples(req.n, req.size)

\* the stream once gen has yielded out to req
Observed(gen, req, out, stream) ==
  stream \cup {[gen |-> Asked(gen, req), out |-> out]}

\* kmeans.partial_fit on the rows X, by an estimator est whose generator is
\* gen: the outcomes [est, gen, stream].  The generator is asked only when
\* centres are reassigned
partial_fit(est, gen, stream, X) ==
  LET count == Cardinality(reassigned(est, X))
      req == Request("reassign", Len(X), count)
  IN IF count = 0
     THEN {[est |-> mini_batch_step(est, X, <<>>), gen |-> gen,
            stream |-> stream]}
     ELSE {[est |-> mini_batch_step(est, X, picks), gen |-> Asked(gen, req),
            stream |-> Observed(gen, req, picks, stream)] :
             picks \in Yields(gen, req, stream)}

\* the numbers of vectors, the batch sizes and the epoch caps of the calls
\* that are repeated
RpPoints == {2, 3}

RpBatchSizes == {1, 2, 3}

RpEpochCaps == {1, 2}

\* the frame of call number `run` of kmeans_cluster(data, k, batch_size,
\* max_iter) on n vectors, in a process whose generators were left in the
\* states `earlier` and which has seen `stream`; first is what the first call
\* left.  rng is the generator of line 127, est_rng the estimator's; indices,
\* perms and fits are what the call has drawn and fed so far, returned is
\* kmeans.cluster_centers_ once the call has returned
RpFrame(n, k, batch_size, max_iter, run, earlier, stream, first) ==
  [pc         |-> "init",
   run        |-> run,
   data       |-> EsData(n),
   k          |-> k,
   batch_size |-> batch_size,
   max_iter   |-> max_iter,
   epoch      |-> 0,
   b          |-> 0,
   perm       |-> <<>>,
   rng        |-> RandomState(SEED, earlier.rng),
   est_rng    |-> RandomState(SEED, earlier.est_rng),
   est        |-> [inertia |-> NoInertia],
   read       |-> NoInertia,
   indices    |-> <<>>,
   perms      |-> <<>>,
   fits       |-> <<>>,
   returned   |-> <<>>,
   stream     |-> stream,
   first      |-> first]

\* what a call that has ended leaves to compare the next one with
RpLeft(frame) ==
  [pc |-> frame.pc, indices |-> frame.indices, perms |-> frame.perms,
   fits |-> frame.fits, returned |-> frame.returned]

\* the first call of kmeans_cluster(data, k, batch_size, max_iter)
RpCall(n, k, batch_size, max_iter) ==
  /\ es.pc = "idle"
  /\ es' = RpFrame(n, k, batch_size, max_iter, 1,
                   [rng |-> Earlier, est_rng |-> Earlier], {},
                   [pc |-> "none"])
  /\ UNCHANGED codec_vars
  /\ UNCHANGED <<km, mn, call>>

\* lines 133-135: the initial batch is drawn from rng and fed; rng.choice
\* raises ValueError when it is asked for more rows than there are.  The
\* first partial_fit seeds the centres from the batch with the estimator's
\* generator
RpInitialize ==
  /\ es.pc = "init"
  /\ LET n == Len(es.data)
         size == init_size(es.k, es.batch_size)
         sample == Request("choice", n, size)
         seeding == Request("seed", size, es.k)
     IN \/ /\ choice_fails(n, size)
           /\ es' = [es EXCEPT !.pc = "failed"]
        \/ /\ ~choice_fails(n, size)
           /\ \E indices \in Yields(es.rng, sample, es.stream) :
                LET seen == Observed(es.rng, sample, indices, es.stream)
                IN \E seeds \in Yields(es.est_rng, seeding, seen) :
                     LET X == Rows(es.data, indices)
                         fresh == est_init(X, es.k, es.batch_size, seeds)
                     IN \E fit \in partial_fit(
                                     fresh, Asked(es.est_rng, seeding),
                                     Observed(es.est_rng, seeding, seeds, seen),
                                     X) :
                          es' = [es EXCEPT
                                   !.pc = "epoch",
                                   !.rng = Asked(es.rng, sample),
                                   !.indices = indices,
                                   !.est = fit.est,
                                   !.est_rng = fit.gen,
                                   !.stream = fit.stream,
                                   !.fits = Append(es.fits,
                                              [rows |-> indices,
                                               centers |-> fit.est.centers])]
  /\ UNCHANGED codec_vars
  /\ UNCHANGED <<km, mn, call>>

\* lines 138-139 and 169: a new permutation from rng, or the return of
\* kmeans.cluster_centers_ once max_iter epochs have run
RpEpoch ==
  /\ es.pc = "epoch"
  /\ \/ /\ es.epoch >= es.max_iter
        /\ es' = [es EXCEPT !.pc = "done", !.returned = es.est.centers]
     \/ /\ es.epoch < es.max_iter
        /\ LET req == Request("permutation", Len(es.data), Len(es.data))
           IN \E perm \in Yields(es.rng, req, es.stream) :
                es' = [es EXCEPT
                         !.pc = "batch", !.b = 0, !.perm = perm,
                         !.rng = Asked(es.rng, req),
                         !.stream = Observed(es.rng, req, perm, es.stream),
                         !.perms = Append(es.perms, perm)]
  /\ UNCHANGED codec_vars
  /\ UNCHANGED <<km, mn, call>>

\* lines 140-143: kmeans.partial_fit(data[perm[start:end]])
RpBatch ==
  /\ es.pc = "batch"
  /\ LET n == Len(es.data)
         start == es.b * es.batch_size
         end == Min(start + es.batch_size, n)
         rows == SubSeq(es.perm, start + 1, end)
     IN \E fit \in partial_fit(es.est, es.est_rng, es.stream,
                               Rows(es.data, rows)) :
          es' = [es EXCEPT
                   !.est = fit.est,
                   !.est_rng = fit.gen,
                   !.stream = fit.stream,
                   !.fits = Append(es.fits, [rows |-> rows,
                                             centers |-> fit.est.centers]),
                   !.b = es.b + 1,
                   !.pc = IF es.b + 1 >= batches_per_epoch(n, es.batch_size)
                          THEN "check" ELSE "batch"]
  /\ UNCHANGED codec_vars
  /\ UNCHANGED <<km, mn, call>>

\* lines 158-165: every CHECK_EVERY epochs kmeans.inertia_ is read
RpCheck ==
  /\ es.pc = "check"
  /\ es' = [es EXCEPT
              !.read = IF (es.epoch + 1) % CHECK_EVERY = 0
                       THEN es.est.inertia ELSE es.read,
              !.epoch = es.epoch + 1,
              !.pc = "epoch"]
  /\ UNCHANGED codec_vars
  /\ UNCHANGED <<km, mn, call>>

\* the process calls kmeans_cluster again, on the same data with the same k,
\* batch_size and max_iter
RpAgain ==
  /\ es.pc \in {"done", "failed"}
  /\ es.run = 1
  /\ es' = RpFrame(Len(es.data), es.k, es.batch_size, es.max_iter, 2,
                   [rng |-> es.rng, est_rng |-> es.est_rng], es.stream,
                   RpLeft(es))
  /\ UNCHANGED codec_vars
  /\ UNCHANGED <<km, mn, call>>

RpNext ==
  \/ \E n \in RpPoints, k \in EsClusters,
        batch_size \in RpBatchSizes, max_iter \in RpEpochCaps :
       RpCall(n, k, batch_size, max_iter)
  \/ RpInitialize
  \/ RpEpoch
  \/ RpBatch
  \/ RpCheck
  \/ RpAgain

SpecRepeat == EsInit /\ [][RpNext]_vars

(* ------------------------------------------------------------------------ *)
(* Properties of the codec                                                  *)
(* ------------------------------------------------------------------------ *)

\* the header field at byte offset `at` of a file of at least at + 4 bytes
HeaderWord(f, at) == unpack_u32(ReadAt(f.bytes, at, 4))

MagicOk(f) == ReadAt(f.bytes, 0, 4) = <<86, 88, 67, 66>>

\* the file is the one save_codebook wrote from `centroids`, untouched since
FreshlySaved == save_status = "ok" /\ edits = 0

\* C2: a matrix of shape (entry_count, 256) written by save_codebook and read
\* back by load_codebook comes back with the same shape and the same values,
\* and the header's entry_count and dim fields are the shape of the input.
C2_RoundTrip ==
  (last_op = "load" /\ FreshlySaved) =>
    /\ loaded.status = "ok"
    /\ loaded.rows = centroids.rows
    /\ loaded.cols = centroids.cols
    /\ loaded.data = centroids.data
    /\ HeaderWord(file, 8) = centroids.rows
    /\ HeaderWord(file, 12) = centroids.cols

\* a two-row matrix holding a negative value has been written and read back
C2_Witness ==
  /\ last_op = "load" /\ FreshlySaved
  /\ centroids.rows = 2 /\ centroids.cols = TARGET_DIM
  /\ \E i \in 1..Len(centroids.data) : centroids.data[i] < 0
  /\ loaded.status = "ok"

\* the IEEE-754 binary32 encodings, least significant byte first, of the values
\* of Palette: 0, 1, -1, 0.5, -0.75, 0.0625, 3
PaletteF32 ==
  << <<0, 0, 0, 0>>, <<0, 0, 128, 63>>, <<0, 0, 128, 191>>, <<0, 0, 0, 63>>,
     <<0, 0, 64, 191>>, <<0, 0, 128, 61>>, <<0, 0, 64, 64>> >>

\* C3: save_codebook writes exactly 16 + entry_count*256*4 bytes: 'VXCB', the
\* u32 LE version 1, the u32 LE entry_count, the u32 LE dim, then the rows in
\* row-major order as little-endian 32-bit floats.
C3_Layout ==
  FreshlySaved =>
    /\ Len(file.bytes) = 16 + centroids.rows * 256 * 4
    /\ SubSeq(file.bytes, 1, 4) = <<86, 88, 67, 66>>
    /\ SubSeq(file.bytes, 5, 8) = <<1, 0, 0, 0>>
    /\ SubSeq(file.bytes, 9, 12) = <<centroids.rows, 0, 0, 0>>
    /\ SubSeq(file.bytes, 13, 16) = <<0, 1, 0, 0>>
    /\ \A r \in 1..centroids.rows : \A c \in 1..256 :
         LET at == 16 + 4 * ((r - 1) * 256 + (c - 1))
             v == centroids.data[(r - 1) * 256 + c]
         IN \A j \in 1..Len(Palette) :
              v = Palette[j] => SubSeq(file.bytes, at + 1, at + 4) = PaletteF32[j]

\* a two-row matrix has been written
C3_Witness ==
  /\ last_op = "save" /\ FreshlySaved
  /\ centroids.rows = 2
  /\ Len(file.bytes) = 16 + 2048

\* C8: save_codebook fails for every matrix whose column count is not 256, and
\* then the file at the output path is as it was: not created, not truncated,
\* not modified.
C8_SaveRejects ==
  [][(last_op' = "save" /\ centroids'.cols # 256) =>
       (save_status' = "AssertionError" /\ file' = file)]_vars

\* a matrix of 257 columns was refused and the earlier file is still there
C8_Witness ==
  /\ last_op = "save" /\ centroids.cols = 257 /\ centroids.rows = 1
  /\ save_status = "AssertionError"
  /\ file = OldFile

\* C9: load_codebook rejects every file whose first 4 bytes are not "VXCB" and
\* every file whose dimension field is not 256; it returns a matrix only if the
\* magic and the dimension both match.
C9_LoadRejects ==
  (last_op = "load" /\ file.exists) =>
    /\ ~MagicOk(file) => loaded.status = "BadMagic"
    /\ (MagicOk(file) /\ Len(file.bytes) >= 16 /\ HeaderWord(file, 12) # 256)
         => loaded.status = "DimMismatch"
    /\ loaded.status = "ok" =>
         (MagicOk(file) /\ Len(file.bytes) >= 16 /\ HeaderWord(file, 12) = 256)

\* a complete file whose dimension field is 257 was refused
C9_Witness ==
  /\ last_op = "load" /\ file.exists /\ MagicOk(file)
  /\ Len(file.bytes) = 16 + 1024
  /\ HeaderWord(file, 12) = 257
  /\ loaded.status = "DimMismatch"

\* the file has the magic and is shorter than its header declares, or than a
\* header
Truncated(f) ==
  /\ f.exists /\ MagicOk(f)
  /\ \/ Len(f.bytes) < 16
     \/ /\ HeaderWord(f, 12) = 256
        /\ Len(f.bytes) < 16 + HeaderWord(f, 8) * 256 * 4

\* C10: load_codebook fails on every file with magic VXCB and dimension 256
\* that is shorter than 16 + entry_count*256*4 bytes, a cut header included; it
\* returns no matrix from such a file.
C10_TruncatedFails ==
  (last_op = "load" /\ Truncated(file)) =>
    /\ loaded.status \in {"StructError", "BufferSizeError", "ReshapeError"}
    /\ loaded.data = <<>>

\* a file that declares two rows and holds one row and a half was refused
C10_Witness ==
  /\ last_op = "load" /\ Truncated(file)
  /\ Len(file.bytes) > 16 + 1024
  /\ HeaderWord(file, 8) = 2
  /\ loaded.status # "ok"

(* ------------------------------------------------------------------------ *)
(* Properties of main                                                       *)
(* ------------------------------------------------------------------------ *)

\* save_codebook has not run: the file at the output path is the one main
\* found
NothingWritten ==
  save_status = "none" /\ last_op = "init" /\ file \in {NoFile, OldFile}

\* load_embeddings has returned a matrix
Loaded == mn.pc \notin {"idle", "check_k", "load"} /\ mn.data # NoMatrix

\* the command line of the end-to-end scenario: k=3, batch_size=4, no cap,
\* reduction skipped
ScenarioArgs == [k |-> 3, max_vocab |-> NoCap, no_pca |-> TRUE, batch_size |-> 4]

\* a run of the scenario on 10 valid vectors of dimension d
Scenario(d) ==
  /\ mn.pc # "idle"
  /\ mn.args = ScenarioArgs
  /\ mn.corpus.vectors = 10 /\ mn.corpus.dim = d /\ ~mn.corpus.junk

\* C4 as stated: the pipeline on 10 valid vectors of dimension 4 with k=3,
\* batch_size=4 and reduction skipped completes successfully, with a 3x4
\* centroid matrix and an output file of exactly 16 + 3*4*4 = 64 bytes.
\* (main has no option for max_iter; the statement is taken for whatever
\* number of epochs the run makes.)
C4_AsStated ==
  (Scenario(4) /\ mn.pc = "exited") =>
    /\ mn.exit = 0
    /\ mn.centroids.rows = 3 /\ mn.centroids.cols = 4
    /\ file.exists /\ Len(file.bytes) = 64

\* C5: when k exceeds 65536 main ends with a non-zero status before the corpus
\* is opened: no load, reduction, normalization, clustering or write happens.
C5_CeilingFirst ==
  (mn.pc # "idle" /\ mn.args.k > 65536) =>
    /\ mn.pc \in {"check_k", "exited"}
    /\ mn.stages = <<>>
    /\ mn.data = NoMatrix
    /\ NothingWritten
    /\ mn.pc = "exited" => mn.exit = 1

\* a run asked for k = 70000 has ended with status 1
C5_Witness ==
  /\ mn.pc = "exited" /\ mn.args.k = 70000
  /\ mn.exit = 1 /\ mn.stages = <<>>

\* C6: when the reader yields n vectors with n < k <= 65536 the run is
\* rejected with a non-zero status after loading and before reduction,
\* normalization or clustering; no output file is written.
C6_TooFewVectors ==
  (Loaded /\ mn.data.rows < mn.args.k /\ mn.args.k <= 65536) =>
    /\ mn.pc \in {"check_n", "exited"}
    /\ mn.stages = <<"load">>
    /\ NothingWritten
    /\ mn.pc = "exited" => (mn.exit = 1 /\ mn.error = "too few vectors")

\* two vectors were loaded for k = 3 and the run has ended with status 1
C6_Witness ==
  /\ mn.pc = "exited" /\ Loaded
  /\ mn.data.rows = 2 /\ mn.args.k = 3
  /\ mn.exit = 1 /\ mn.error = "too few vectors"

\* --no-pca and loaded vectors of a dimension other than 256
SkippedWrongDim == Loaded /\ mn.args.no_pca /\ mn.data.cols # 256

\* C7: when reduction is skipped and the loaded dimension is not 256, main
\* ends with a non-zero status before normalization, clustering or writing;
\* when it is skipped and the dimension is 256, the run goes on to
\* normalization with the data unchanged.
C7_SkipNeedsTargetDim ==
  /\ [](SkippedWrongDim =>
          /\ mn.pc \in {"check_n", "reduce", "exited"}
          /\ mn.stages = <<"load">>
          /\ NothingWritten
          /\ mn.pc = "exited" => mn.exit = 1)
  /\ [][(mn.pc = "reduce" /\ mn.args.no_pca /\ mn.data.cols = 256) =>
          (mn'.pc = "normalize" /\ mn'.data = mn.data /\ mn'.stages = mn.stages)]_vars

\* vectors of dimension 4 were loaded under --no-pca, enough of them for k,
\* and the run has ended at the dimension check
C7_Witness ==
  /\ mn.pc = "exited" /\ SkippedWrongDim
  /\ mn.data.cols = 4 /\ mn.data.rows >= mn.args.k
  /\ mn.exit = 1 /\ mn.error = "dimension"

(* ------------------------------------------------------------------------ *)
(* Properties of the pipeline functions                                     *)
(* ------------------------------------------------------------------------ *)

\* the squared L2 norm of row r of m, in units of 1 / Scale^2
NormSq(m, r) == sum_squares(m.data, (r - 1) * m.cols + 1, r * m.cols)

\* how far from Scale^2 the squared norm of a normalized row of c values may
\* be: each value is rounded to the nearest 1 / Scale (an error of at most
\* 1/2 on each of c values whose absolute values sum to at most
\* sqrt(c) * Scale), and the norm carries at least 14 bits
UnitTol(c) == Scale * (isqrt(c) + 1) + c + (Scale * Scale) \div 4096

\* row r of m has norm 1 within the tolerance
UnitRow(m, r) == Abs(NormSq(m, r) - Scale * Scale) <= UnitTol(m.cols)

\* row r of m is all zeros
ZeroRow(m, r) == \A i \in 1..m.cols : m.data[(r - 1) * m.cols + i] = 0

SameShape(a, b) ==
  a.rows = b.rows /\ a.cols = b.cols /\ Len(a.data) = Len(b.data)

\* C13 as stated: l2_normalize returns a matrix of the same shape in which
\* every row is a unit vector within tolerance, the rows whose original norm
\* was below epsilon (the all-zero row among them) included
C13_AsStated ==
  call.op = "l2_normalize" =>
    /\ SameShape(call.out, call.arg)
    /\ \A r \in 1..call.arg.rows : UnitRow(call.out, r)

\* C14: pca_reduce asked for more dimensions than the input has fails with an
\* error and returns no matrix
C14_NoExpansion ==
  (call.op = "pca_reduce" /\ call.arg.target_dim > call.arg.data.cols) =>
    /\ call.out.status = "ValueError"
    /\ call.out.data = NoMatrix

\* a matrix with enough rows and one column was asked for two columns
C14_Witness ==
  /\ call.op = "pca_reduce"
  /\ call.arg.data.rows = MaxCols /\ call.arg.data.cols = 1
  /\ call.arg.target_dim = 2
  /\ call.out.status = "ValueError"

\* C15: pca_reduce asked for the dimension the input already has returns the
\* input unchanged
C15_FastPath ==
  (call.op = "pca_reduce" /\ call.arg.target_dim = call.arg.data.cols) =>
    /\ call.out.status = "ok"
    /\ call.out.data = call.arg.data

\* a single row of MaxCols columns, which no fit could take, came back as it was
C15_Witness ==
  /\ call.op = "pca_reduce"
  /\ call.arg.data = GenMatrix(1, MaxCols, NumPatterns)
  /\ call.arg.target_dim = MaxCols
  /\ call.out = [status |-> "ok", data |-> GenMatrix(1, MaxCols, NumPatterns)]

\* a line yields a vector: at least 3 fields, and every field after the token
\* is one float() parses
Qualifies(parts) ==
  Len(parts) >= 3 /\ \A j \in 2..Len(parts) : parts[j].num

\* the positions, among the first `cap` lines, of the lines that yield a vector
QualifyingLines(lines, max_vocab) ==
  {i \in 1..Len(lines) :
     (max_vocab.given => i <= max_vocab.n) /\ Qualifies(lines[i])}

\* the position of the j-th line of the set q of positions
NthLine(q, j) == CHOOSE i \in q : Cardinality({h \in q : h < i}) = j - 1

\* C16: when load_embeddings returns, its rows are, in file order, the numbers
\* of exactly the lines among the first `cap` that have at least 3 fields all
\* of whose fields after the token parse; short and unparseable lines are
\* skipped; the lines at and beyond the cap have no effect on the outcome; and
\* it does return whenever those lines are one or more of one dimension
C16_ReadsQualifyingLines ==
  call.op = "load_embeddings" =>
    LET lines == call.arg.lines
        cap == call.arg.max_vocab
        q == QualifyingLines(lines, cap)
        m == call.out.data
    IN /\ call.out.status = "ok" =>
            /\ m.rows = Cardinality(q)
            /\ cap.given => m.rows <= cap.n
            /\ \A j \in 1..m.rows :
                 /\ Len(lines[NthLine(q, j)]) = m.cols + 1
                 /\ \A c \in 1..m.cols :
                      m.data[(j - 1) * m.cols + c] = lines[NthLine(q, j)][c + 1].val
       /\ ( /\ q # {}
            /\ \A i, h \in q : Len(lines[i]) = Len(lines[h]) )
            => call.out.status = "ok"
       /\ cap.given =>
            call.out = load_embeddings(SubSeq(lines, 1, Min(cap.n, Len(lines))), NoCap)

\* a file of an unparseable line, the line (-1, 0) and the line (1, 2) was read
\* with a cap of 2: one vector, (-1, 0), came back
C16_Witness ==
  /\ call.op = "load_embeddings"
  /\ call.arg.max_vocab = Cap(2)
  /\ call.arg.lines = <<<<Word, Num(Scale), Word>>,
                        <<Word, Num(-Scale), Num(0)>>,
                        <<Word, Num(Scale), Num(2 * Scale)>>>>
  /\ call.out = [status |-> "ok", data |-> Matrix(1, 2, <<-Scale, 0>>)]

(* ------------------------------------------------------------------------ *)
(* Properties of main, continued                                            *)
(* ------------------------------------------------------------------------ *)

\* the call of load_embeddings at line 234 is over
LoadRan == mn.pc # "idle" /\ mn.stages # <<>>

\* C17: when no line among those read yields a vector (an empty file, header
\* and malformed lines only, a cap of 0), load_embeddings raises instead of
\* returning an empty matrix, and main ends there with status 1: no reduction,
\* no normalization, no clustering, no write
C17_EmptyCorpusFails ==
  (LoadRan /\ QualifyingLines(CorpusLines(mn.corpus), mn.args.max_vocab) = {}) =>
    /\ mn.pc = "exited" /\ mn.exit = 1 /\ mn.error = "ValueError"
    /\ mn.data = NoMatrix /\ mn.centroids = NoMatrix
    /\ mn.stages = <<"load">>
    /\ NothingWritten
    /\ km = KmIdle

\* a file of a header and a malformed line was read without a cap and the run
\* has ended in the reader
C17_Witness ==
  /\ mn.pc = "exited" /\ mn.error = "ValueError" /\ mn.exit = 1
  /\ mn.corpus.vectors = 0 /\ mn.corpus.junk
  /\ mn.args.max_vocab = NoCap /\ mn.args.k = 3
  /\ mn.stages = <<"load">>
  /\ NothingWritten

\* the stages of a complete run, in order
AllStages(no_pca) ==
  IF no_pca THEN <<"load", "normalize", "cluster", "normalize", "save">>
  ELSE <<"load", "reduce", "normalize", "cluster", "normalize", "save">>

\* a is the beginning of b
IsPrefix(a, b) == Len(a) <= Len(b) /\ SubSeq(b, 1, Len(a)) = a

\* C11: a second call of kmeans_cluster on the same data with the same k,
\* batch size and max_iter, made later in the same process, starts with both
\* generators freshly seeded with 42, draws the initialization sample and the
\* permutations the first call drew, feeds its estimator the same batches in
\* the same order with the same centres after each, and ends as the first
\* call did, returning the same centroid matrix
C11_Deterministic ==
  (es.pc # "idle" /\ es.run = 2) =>
    /\ es.pc = "init" =>
         /\ es.rng = [seed |-> SEED, asked |-> <<>>]
         /\ es.est_rng = [seed |-> SEED, asked |-> <<>>]
    /\ es.pc \notin {"init", "failed"} => es.indices = es.first.indices
    /\ IsPrefix(es.perms, es.first.perms)
    /\ IsPrefix(es.fits, es.first.fits)
    /\ es.pc \in {"done", "failed"} =>
         /\ es.pc = es.first.pc
         /\ es.perms = es.first.perms
         /\ es.fits = es.first.fits
         /\ es.returned = es.first.returned

\* the second call on three vectors has returned two centres after two
\* epochs, the first over a permutation that is not the identity, with
\* centres that are no longer the rows they were seeded on
C11_Witness ==
  /\ es.pc = "done" /\ es.run = 2
  /\ Len(es.data) = 3 /\ es.k = 2 /\ es.batch_size = 1
  /\ Len(es.perms) = 2 /\ es.perms[1][1] = 3
  /\ Len(es.fits) = 7
  /\ es.returned # es.est.initial
  /\ es.returned = es.first.returned

\* C12: whenever main has written the output file, the stages that ran are
\* load, reduce (unless --no-pca), normalize, cluster, normalize, save, in
\* that order and once each, and the matrix handed to save_codebook is
\* l2_normalize of the centroids the clusterer returned, every row of it a
\* unit vector
C12_StageOrder ==
  save_status = "ok" =>
    /\ mn.pc = "exited" /\ mn.exit = 0
    /\ mn.stages = AllStages(mn.args.no_pca)
    /\ centroids = mn.centroids
    /\ centroids = l2_normalize(mn.clustered)
    /\ \A r \in 1..centroids.rows : UnitRow(centroids, r)

\* a run with the reduce stage has written a file from normalized centroids
\* that differ from the clustered ones
C12_Witness ==
  /\ save_status = "ok" /\ file.exists
  /\ mn.pc = "exited" /\ mn.exit = 0
  /\ ~mn.args.no_pca
  /\ Len(mn.stages) = 6
  /\ centroids = l2_normalize(mn.clustered)
  /\ centroids # mn.clustered

(* ------------------------------------------------------------------------ *)
(* Properties of the clusterer                                              *)
(* ------------------------------------------------------------------------ *)

\* C18 as stated: when the batches of an epoch are done, the permutation
\* drawn covers all n indices and every one of them has been fed to exactly
\* one partial_fit of the epoch
C18_EveryVectorFed ==
  km.pc = "check" =>
    /\ km.perm \in Perms(km.n)
    /\ \A i \in 1..km.n :
         Cardinality({j \in 1..Len(km.fed) : km.fed[j] = i}) = 1

\* the relative improvement from prev to cur is strictly between 0% and 0.01%
Improving(prev, cur) ==
  /\ prev # Inf /\ prev > 0
  /\ prev - cur > 0
  /\ (prev - cur) * 10000 < prev

\* the convergence check runs in this step
Checking == km.pc = "check" /\ (km.epoch + 1) % 10 = 0

\* C19 as stated: a convergence check made after 50 or more completed epochs
\* that finds an improvement strictly between 0% and 0.01% stops the run
C19_StopsFromFloor ==
  [][(Checking /\ km.epoch + 1 >= 50
        /\ Improving(km.prev_inertia, km'.inertia))
      => km'.pc = "done"]_vars

\* C20 as stated: the run stops early only in a convergence check that finds
\* an improvement strictly between 0% and 0.01%; a check that finds anything
\* else (no improvement, a worsening, no previous inertia) makes the inertia
\* read the new baseline and goes on to the next epoch
C20_StopsOnlyWhenImproving ==
  [][km.pc = "check" =>
       /\ km'.pc = "done" =>
            (Checking /\ Improving(km.prev_inertia, km'.inertia))
       /\ (Checking /\ ~Improving(km.prev_inertia, km'.inertia)) =>
            /\ km'.pc = "epoch" /\ km'.epoch = km.epoch + 1
            /\ km'.prev_inertia = km'.inertia]_vars

\* C25 as stated: a convergence check that has a previous inertia to compare
\* with, 0 included, ends in a decision: the run stops or goes on, it does
\* not fail
C25_CheckNeverFails ==
  [][(Checking /\ km.prev_inertia # Inf)
      => (km'.pc \in {"done", "epoch"} /\ km'.status # "ZeroDivisionError")]_vars

\* the epochs a finished call has completed
EpochsRun ==
  IF km.epoch >= km.max_iter THEN km.max_iter ELSE km.epoch + 1

\* C24 as stated: a call that has made its initialization update ends by
\* returning, after one update per batch of max(1, n div b) batches in each
\* epoch it ran, and it ran all max_iter epochs unless a convergence check
\* found an improvement strictly between 0% and 0.01%: the epoch loop has no
\* other exit
C24_EpochsThenReturn ==
  (km.pc \in {"done", "failed"} /\ km.fits >= 1) =>
    /\ km.status = "ok"
    /\ km.fits = 1 + EpochsRun * Max(1, km.n \div km.batch_size)
    /\ EpochsRun < km.max_iter =>
         (EpochsRun % 10 = 0 /\ Improving(km.prev_inertia, km.inertia))

(* ------------------------------------------------------------------------ *)
(* Properties of main and of the reader of the codebook, continued          *)
(* ------------------------------------------------------------------------ *)

\* C23 as stated: when main is about to call kmeans_cluster, k is at least 1,
\* at most 65536 and at most the number of vectors
C23_ClustererPreconditions ==
  (mn.pc = "cluster") =>
    /\ 1 <= mn.args.k /\ mn.args.k <= 65536
    /\ mn.args.k <= mn.data.rows

\* version fields a file may carry: 0, 1, 2 and 2^32 - 1
VersionWords ==
  {pack_u32(0), pack_u32(1), pack_u32(2), <<255, 255, 255, 255>>}

\* the file f of at least 8 bytes with the word w in bytes 4-7
WithVersion(f, w) ==
  File([i \in 1..Len(f.bytes) |->
          IF i > 4 /\ i <= 8 THEN w[i - 4] ELSE f.bytes[i]])

\* C26: load_codebook gives the same outcome, failure or matrix, on two files
\* that differ only in bytes 4-7; what Load returned is what it returns on the
\* same file under any other version
C26_VersionIgnored ==
  (file.exists /\ Len(file.bytes) >= 8) =>
    /\ \A w \in VersionWords :
         load_codebook(WithVersion(file, w)) = load_codebook(file)
    /\ last_op = "load" => loaded = load_codebook(file)

\* a written file whose version was overwritten with 2 was loaded, and the
\* matrix that came back is the one saved
C26_Witness ==
  /\ last_op = "load" /\ save_status = "ok" /\ edits = 1
  /\ Len(file.bytes) >= 16
  /\ MagicOk(file) /\ HeaderWord(file, 4) = 2
  /\ loaded.status = "ok" /\ loaded.rows = MaxRows
  /\ loaded.data = centroids.data

(* ------------------------------------------------------------------------ *)
(* Properties of kmeans_cluster followed on its vectors                     *)
(* ------------------------------------------------------------------------ *)

\* C21: the inertia read at a convergence check is the total inertia of the
\* whole data: the sum, over all n vectors, of the squared distance to the
\* nearest current centre, whatever the batch size
C21_InertiaIsTotal ==
  (es.pc \in {"epoch", "done"} /\ es.read # NoInertia) =>
    es.read = inertia_of(es.est.centers, es.data)

\* the centres of a finished run that were never the nearest centre of a
\* batch row, neither in an update nor when a batch was labelled
NeverAssigned ==
  {j \in 1..es.k : es.est.hits[j] = 0 /\ es.est.labelled[j] = 0}

\* C22: in the returned matrix a centre that never received a
\* nearest-assignment in any batch is exactly where it was seeded
C22_UnassignedKeepsInitial ==
  es.pc = "done" =>
    \A j \in NeverAssigned : es.est.centers[j] = es.est.initial[j]

====
